---- MODULE Spec2Model ----
(***************************************************************************)
(* Model of the OpenScriptures OHB importer (scripts/import.ts): the       *)
(* Strong's-number extractor, the recursive verse walk of parseOsis and    *)
(* the post-filter of saveVerse.                                           *)
(*                                                                         *)
(* A JavaScript string is a sequence of one-character strings; the Hebrew  *)
(* characters are named ("alef", "pe", "samekh", "maqqef").                 *)
(***************************************************************************)
EXTENDS Integers, Sequences, FiniteSets, TLC

VARIABLES
    script,     \* which script's extractStrongs runs: "import" or "update"
    sAbsent,    \* the argument of the running extractStrongs call is null
    sValue,     \* the argument of the running extractStrongs call
    lastIndex,  \* STRONGS_RE.lastIndex, the cursor of the global regex (0-based)
    sResults,   \* results of the running extractStrongs call
    sPc,        \* "idle" | "scan" | "done"
    sCalls,     \* how many extractStrongs calls have returned, up to MaxCalls
    doc,        \* the verse elements of the parsed document, in findVerses order
    stack,      \* per verse begun: the call stack of its walk, top first
    words,      \* per verse begun: its `words` closure variable
    pos,        \* per verse begun: its `pos` closure variable
    isInsideQere, \* per verse begun: its `isInsideQere` closure variable
    verses,     \* parseOsis's result list
    saved,      \* the VerseData records written by saveVerse, in order
    pc,         \* "parse" | "save" | "done"
    lReq,       \* the arguments of the running loadVerse call
    lFiles,     \* the data directory: what each verse file holds
    lPc,        \* "idle" | "read" | "parse" | "readdir" | "files" | "returned" | "thrown"
    lOut,       \* what the running call has read, returned or thrown so far
    lDir,       \* the chapter directory: its files as readdir lists them
    gWord,      \* the argument of computeHebrew
    gPc,        \* "idle" | "done"
    gOut,       \* the gematria record computeHebrew returned
    uOut        \* the records parseVerse of the targeted update returned

strongsVars == <<script, sAbsent, sValue, lastIndex, sResults, sPc, sCalls>>
walkVars == <<doc, stack, words, pos, isInsideQere, verses, saved, pc>>
loadVars == <<lReq, lFiles, lPc, lOut, lDir>>
gemVars == <<gWord, gPc, gOut, uOut>>
vars == <<script, sAbsent, sValue, lastIndex, sResults, sPc, sCalls,
          doc, stack, words, pos, isInsideQere, verses, saved, pc,
          lReq, lFiles, lPc, lOut, lDir, gWord, gPc, gOut, uOut>>

-----------------------------------------------------------------------------
(* Strings *)

DigitChars == {"0", "1", "2", "3", "4", "5", "6", "7", "8", "9"}

DigitVal(c) ==
    CASE c = "0" -> 0 [] c = "1" -> 1 [] c = "2" -> 2 [] c = "3" -> 3
      [] c = "4" -> 4 [] c = "5" -> 5 [] c = "6" -> 6 [] c = "7" -> 7
      [] c = "8" -> 8 [] c = "9" -> 9

DigitChar(d) ==
    CASE d = 0 -> "0" [] d = 1 -> "1" [] d = 2 -> "2" [] d = 3 -> "3"
      [] d = 4 -> "4" [] d = 5 -> "5" [] d = 6 -> "6" [] d = 7 -> "7"
      [] d = 8 -> "8" [] d = 9 -> "9"

\* String.prototype.startsWith
StartsWith(s, p) == Len(s) >= Len(p) /\ SubSeq(s, 1, Len(p)) = p

\* s.startsWith(p, q - 1) for a 1-based index q
StartsWithAt(s, q, p) ==
    q + Len(p) - 1 <= Len(s) /\ SubSeq(s, q, q + Len(p) - 1) = p

\* parseInt(digits, 10) of a string of decimal digits
RECURSIVE parseInt(_)
parseInt(ds) ==
    IF ds = <<>> THEN 0
    ELSE 10 * parseInt(SubSeq(ds, 1, Len(ds) - 1)) + DigitVal(ds[Len(ds)])

\* String(n) of a natural number: decimal, no leading zeros
RECURSIVE NumberToString(_)
NumberToString(n) ==
    IF n < 10 THEN <<DigitChar(n)>>
    ELSE NumberToString(n \div 10) \o <<DigitChar(n % 10)>>

\* String.prototype.toUpperCase on the letters the prefix class admits
toUpperCase(c) == CASE c = "h" -> "H" [] c = "g" -> "G" [] OTHER -> c

-----------------------------------------------------------------------------
(* STRONGS_RE and extractStrongs *)

\* the class [HGhg]
PrefixLetters == {"H", "G", "h", "g"}

\* upper end of the quantifier \d{n,5}
MaxDigits == 5

\* lower end of the quantifier: \d{1,5} in the importer, \d{3,5} in the
\* targeted update
MinDigitsImport == 1
MinDigitsUpdate == 3

MutMinDigitsThree(which) == MinDigitsUpdate

MinDigits(which) == IF which = "import" THEN MinDigitsImport ELSE MinDigitsUpdate

\* the optional marker (?:strongs?:)? : the lengths it can match at q, greedy
\* alternative first
MarkerStrongs == <<"s", "t", "r", "o", "n", "g", "s", ":">>
MarkerStrong == <<"s", "t", "r", "o", "n", "g", ":">>

\* number of digit characters \d{_,5} takes greedily at 1-based index q
DigitRun(v, q) ==
    CHOOSE n \in 0..MaxDigits :
        /\ q + n - 1 <= Len(v)
        /\ \A i \in q..(q + n - 1) : v[i] \in DigitChars
        /\ (n = MaxDigits \/ q + n > Len(v) \/ v[q + n] \notin DigitChars)

\* ([HGhg]?\d{min,5}) tried at 1-based index q: the 1-based index after the
\* match, or 0 when the group does not match there. The prefix letter is
\* tried first (greedy ?), then the digits alone.
GroupEnd(v, q, min) ==
    IF q <= Len(v) /\ v[q] \in PrefixLetters /\ DigitRun(v, q + 1) >= min
    THEN q + 1 + DigitRun(v, q + 1)
    ELSE IF DigitRun(v, q) >= min THEN q + DigitRun(v, q)
    ELSE 0

\* the whole pattern tried at 1-based index p: [from, to) of the capture
\* group, as <<from, to>>, or <<0, 0>> when there is no match at p. The
\* marker alternatives are tried longest first, then no marker.
MutMatchAtAnchored(v, p, min) ==
    IF GroupEnd(v, p, min) = Len(v) + 1 THEN <<p, GroupEnd(v, p, min)>> ELSE <<0, 0>>

MatchAt(v, p, min) ==
    IF StartsWithAt(v, p, MarkerStrongs) /\ GroupEnd(v, p + Len(MarkerStrongs), min) > 0
    THEN <<p + Len(MarkerStrongs), GroupEnd(v, p + Len(MarkerStrongs), min)>>
    ELSE IF StartsWithAt(v, p, MarkerStrong) /\ GroupEnd(v, p + Len(MarkerStrong), min) > 0
    THEN <<p + Len(MarkerStrong), GroupEnd(v, p + Len(MarkerStrong), min)>>
    ELSE IF GroupEnd(v, p, min) > 0 THEN <<p, GroupEnd(v, p, min)>>
    ELSE <<0, 0>>

\* STRONGS_RE.exec(value) with the cursor at `from` (0-based): the record
\* [found, token, lastIndex]; a failed exec resets the cursor to 0
MutRegExpExecKeepsCursor(v, from, min) ==
    LET starts == {p \in (from + 1)..Len(v) : MatchAt(v, p, min)[1] > 0}
    IN IF from > Len(v) \/ starts = {}
       THEN [found |-> FALSE, token |-> <<>>, lastIndex |-> from]
       ELSE LET p == CHOOSE q \in starts : \A r \in starts : q <= r
                m == MatchAt(v, p, min)
            IN [found |-> TRUE,
                token |-> SubSeq(v, m[1], m[2] - 1),
                lastIndex |-> m[2] - 1]

RegExpExec(v, from, min) ==
    LET starts == {p \in (from + 1)..Len(v) : MatchAt(v, p, min)[1] > 0}
    IN IF from > Len(v) \/ starts = {}
       THEN [found |-> FALSE, token |-> <<>>, lastIndex |-> 0]
       ELSE LET p == CHOOSE q \in starts : \A r \in starts : q <= r
                m == MatchAt(v, p, min)
            IN [found |-> TRUE,
                token |-> SubSeq(v, m[1], m[2] - 1),
                lastIndex |-> m[2] - 1]

\* token.match(/\d{min,5}/): the first run of min..5 digits in the token, or
\* <<>> when there is none
TokenDigits(token, min) ==
    LET starts == {q \in 1..Len(token) : DigitRun(token, q) >= min}
    IN IF starts = {} THEN <<>>
       ELSE LET q == CHOOSE s \in starts : \A r \in starts : s <= r
            IN SubSeq(token, q, q + DigitRun(token, q) - 1)

\* the body of the while loop for one match: the code pushed for the token,
\* as a one-element list, or the empty list when the loop continues
MutCodeNoPrefixDefault(token, min) ==
    LET digits == TokenDigits(token, min)
    IN IF digits = <<>> THEN <<>>
       ELSE <<(IF token[1] \in PrefixLetters THEN <<toUpperCase(token[1])>> ELSE <<>>)
              \o NumberToString(parseInt(digits))>>

MutCodeKeepsZeros(token, min) ==
    LET digits == TokenDigits(token, min)
        prefix == IF token[1] \in PrefixLetters THEN toUpperCase(token[1]) ELSE "H"
    IN IF digits = <<>> THEN <<>> ELSE <<<<prefix>> \o digits>>

CodeOf(token, min) ==
    LET prefix == IF token[1] \in PrefixLetters THEN toUpperCase(token[1]) ELSE "H"
        digits == TokenDigits(token, min)
    IN IF digits = <<>> THEN <<>>
       ELSE <<<<prefix>> \o NumberToString(parseInt(digits))>>

\* extractStrongs(value) as one call: the loop from lastIndex = 0 until exec
\* fails
RECURSIVE ScanFrom(_, _, _)
ScanFrom(v, from, min) ==
    LET m == RegExpExec(v, from, min)
    IN IF ~m.found THEN <<>>
       ELSE CodeOf(m.token, min) \o ScanFrom(v, m.lastIndex, min)

extractStrongs(value, which) ==
    IF value = <<>> THEN <<>> ELSE ScanFrom(value, 0, MinDigits(which))

-----------------------------------------------------------------------------
(* extractStrongs step by step, with the cursor of the shared regex object *)

\* longest lemma drawn from the alphabet below
MaxLemmaLen == 3

\* the returned calls are counted up to here
MaxCalls == 2

LemmaAlphabet == {"1", "0", "h", "l", "/", " "}

RECURSIVE StringsUpTo(_, _)
StringsUpTo(alphabet, n) ==
    IF n = 0 THEN {<<>>}
    ELSE LET shorter == StringsUpTo(alphabet, n - 1)
         IN shorter \cup {Append(s, c) : s \in {t \in shorter : Len(t) = n - 1},
                                         c \in alphabet}

\* lemma attribute values of the source documents and of the tests
Str1471a == <<"1", "4", "7", "1", " ", "a">>
Str7227a == <<"7", "2", "2", "7", " ", "a">>
StrL26 == <<"l", "/", "2", "6">>
StrC6 == <<"c", "/", "6">>
StrCL == <<"c", "/", "l">>
StrB990 == <<"b", "/", "9", "9", "0">>
StrH0430 == <<"H", "0", "4", "3", "0">>
Str3318 == <<"3", "3", "1", "8">>
Str12345 == <<"1", "2", "3", "4", "5">>
StrCB3605 == <<"c", "/", "b", "/", "3", "6", "0", "5">>
StrMarked == <<"s", "t", "r", "o", "n", "g", ":", "G", "1", "2">>
Str3605x2 == <<"3", "6", "0", "5", "/", "3", "6", "0", "5">>
StrL == <<"l">>
StrG12 == <<"g", "1", "2">>
Str123456 == <<"1", "2", "3", "4", "5", "6">>

FixtureLemmas ==
    {Str1471a, Str7227a, StrL26, StrC6, StrCL, StrB990, StrH0430, Str3318,
     Str12345, StrCB3605, StrMarked, Str3605x2, StrL, StrG12, Str123456,
     <<"1">>, <<"6">>, <<"1", "4">>, <<"8", "5">>, <<"1", " ", "a">>,
     <<"1", "2", "3", "4", "5", " ", "a">>, <<"l", "/", "1", "2", "3", "4", "5">>,
     <<"0", "0", "7", " ", "b">>}

LemmaInputs == StringsUpTo(LemmaAlphabet, MaxLemmaLen) \cup FixtureLemmas

StrongsInit ==
    /\ script \in {"import", "update"}
    /\ sAbsent = FALSE
    /\ sValue = <<>>
    /\ lastIndex = 0
    /\ sResults = <<>>
    /\ sPc = "idle"
    /\ sCalls = 0

\* extractStrongs is entered with a string: results = [], lastIndex = 0
StrongsCall ==
    /\ sPc = "idle"
    /\ \E v \in LemmaInputs :
        /\ sAbsent' = FALSE
        /\ sValue' = v
        /\ sResults' = <<>>
        /\ IF v = <<>>
           THEN sPc' = "done" /\ UNCHANGED lastIndex
           ELSE sPc' = "scan" /\ lastIndex' = 0
    /\ UNCHANGED <<script, sCalls, walkVars, loadVars, gemVars>>

\* extractStrongs is entered with null: `if (!value) return []`
StrongsCallNull ==
    /\ sPc = "idle"
    /\ sAbsent' = TRUE
    /\ sValue' = <<>>
    /\ sResults' = <<>>
    /\ sPc' = "done"
    /\ UNCHANGED <<script, lastIndex, sCalls, walkVars, loadVars, gemVars>>

\* one evaluation of the while condition and, on a match, of the loop body
StrongsExec ==
    /\ sPc = "scan"
    /\ LET m == RegExpExec(sValue, lastIndex, MinDigits(script))
       IN /\ lastIndex' = m.lastIndex
          /\ IF m.found
             THEN /\ sResults' = sResults \o CodeOf(m.token, MinDigits(script))
                  /\ sPc' = "scan"
             ELSE /\ sResults' = sResults
                  /\ sPc' = "done"
    /\ UNCHANGED <<script, sAbsent, sValue, sCalls, walkVars, loadVars, gemVars>>

\* the call returns and its locals go; the regex object lives on
StrongsReturn ==
    /\ sPc = "done"
    /\ sPc' = "idle"
    /\ sAbsent' = FALSE
    /\ sValue' = <<>>
    /\ sResults' = <<>>
    /\ sCalls' = IF sCalls < MaxCalls THEN sCalls + 1 ELSE sCalls
    /\ UNCHANGED <<script, lastIndex, walkVars, loadVars, gemVars>>


-----------------------------------------------------------------------------
(* The generic tree fast-xml-parser hands to the walk: a text leaf, a list  *)
(* of nodes, or a map of ordered entries key -> node (attributes under      *)
(* "@_...", inline text under "#text", child elements under their name).    *)

StrNode(s) == [kind |-> "str", str |-> s]
ListNode(items) == [kind |-> "list", items |-> items]
MapNode(ents) == [kind |-> "map", ents |-> ents]
Entry(k, v) == [key |-> k, val |-> v]
Undefined == [kind |-> "undefined"]

KeyText == <<"#", "t", "e", "x", "t">>
KeyType == <<"@", "_", "t", "y", "p", "e">>
KeyLemma == <<"@", "_", "l", "e", "m", "m", "a">>
KeyMorph == <<"@", "_", "m", "o", "r", "p", "h">>
KeyOsisID == <<"@", "_", "o", "s", "i", "s", "I", "D">>
KeyN == <<"@", "_", "n">>
KeyW == <<"w">>
KeySeg == <<"s", "e", "g">>
KeyNote == <<"n", "o", "t", "e">>
KeyRdg == <<"r", "d", "g">>
KeyCatchWord == <<"c", "a", "t", "c", "h", "W", "o", "r", "d">>
KeyFoo == <<"f", "o", "o">>
AttrPrefix == <<"@", "_">>

TypeKetiv == <<"x", "-", "k", "e", "t", "i", "v">>
TypeQere == <<"x", "-", "q", "e", "r", "e">>
TypeAccent == <<"x", "-", "a", "c", "c", "e", "n", "t">>
TypeSofPasuq == <<"x", "-", "s", "o", "f", "-", "p", "a", "s", "u", "q">>
TypeVariant == <<"v", "a", "r", "i", "a", "n", "t">>
TypeAlternative == <<"a", "l", "t", "e", "r", "n", "a", "t", "i", "v", "e">>
XDash == <<"x", "-">>

\* elem[key]: the value of the entry, or undefined
Get(elem, key) ==
    IF elem.kind = "map" /\ \E i \in 1..Len(elem.ents) : elem.ents[i].key = key
    THEN elem.ents[CHOOSE i \in 1..Len(elem.ents) : elem.ents[i].key = key].val
    ELSE Undefined

\* !value
Falsy(n) == n.kind = "undefined" \/ (n.kind = "str" /\ n.str = <<>>)

\* elem[key] as string | undefined, with undefined and '' both read as <<>>:
\* every use of such a value in the walk is a truthiness test, an equality
\* with a non-empty literal, or `x || null`
GetStr(elem, key) ==
    IF Get(elem, key).kind = "str" THEN Get(elem, key).str ELSE <<>>

\* Array.isArray(v) ? v : [v]
MutAsArrayAlwaysWraps(v) == <<v>>

AsArray(v) == IF v.kind = "list" THEN v.items ELSE <<v>>

\* typeof v === 'object' for a non-null v
IsObject(v) == v.kind \in {"list", "map"}

-----------------------------------------------------------------------------
(* Text normalisation *)

\* Hebrew maqqef character (U+05BE)
MAQQEF == <<"maqqef">>

\* the characters of the block U+0590-U+05FF that occur in the walked texts
HebrewRange == {"alef", "bet", "yod", "pe", "samekh", "maqqef", "merkha", "sofpasuq"}

\* the characters \s matches that occur in the model
WhiteSpace == {" ", "\n"}

\* s.replace(/\//g, '')
NotSlash(c) == c # "/"

MutKeepSlashes(s) == s

RemoveSlashes(s) == SelectSeq(s, NotSlash)

\* s.trim()
RECURSIVE TrimStart(_)
TrimStart(s) ==
    IF s # <<>> /\ Head(s) \in WhiteSpace THEN TrimStart(Tail(s)) ELSE s

RECURSIVE TrimEnd(_)
TrimEnd(s) ==
    IF s # <<>> /\ s[Len(s)] \in WhiteSpace THEN TrimEnd(SubSeq(s, 1, Len(s) - 1)) ELSE s

Trim(s) == TrimEnd(TrimStart(s))

\* s.split(/\s+/): the pieces between maximal runs of whitespace, empty
\* pieces at the ends included
RECURSIVE Split(_)
Split(s) ==
    IF \A i \in 1..Len(s) : s[i] \notin WhiteSpace THEN <<s>>
    ELSE LET i == CHOOSE j \in 1..Len(s) :
                      s[j] \in WhiteSpace /\ \A k \in 1..(j - 1) : s[k] \notin WhiteSpace
         IN <<SubSeq(s, 1, i - 1)>> \o Split(TrimStart(SubSeq(s, i, Len(s))))

\* .filter(Boolean) on a list of strings
NonEmpty(t) == t # <<>>
MutKeepMaqqef(t) == TRUE
NotMaqqef(t) == t # MAQQEF

\* the tokens the emit loops push a word for: split, filter(Boolean), and
\* `if (word === MAQQEF) continue`
Pieces(text) == SelectSeq(SelectSeq(Split(text), NonEmpty), NotMaqqef)

\* inline texts and text leaves of the documents
THeb == <<"alef", "bet">>
THeb2 == <<"yod">>
TCant == <<"bet", "merkha", "yod">>
TJoined == <<"alef", "maqqef">>
TPieces == <<"\n", "alef", " ", "maqqef", " ", "/", " ", "bet", "/", "yod", "\n">>
TSlashes == <<"/", " ", "/">>
TSpace == <<"\n", " ">>
TProse == <<"W", "e", " ", "r", "e", "a", "d">>
TPe == <<"pe">>
TSamekh == <<"samekh">>
TSof == <<"sofpasuq">>
TMaqqef == <<"maqqef">>
TLeafMaqqef == <<"yod", " ", "maqqef", "\n", "maqqef", "maqqef">>

\* longest raw text drawn from the alphabet below
MaxTextLen == 3

TextAlphabet == {"/", " ", "\n", "alef", "maqqef"}

\* every raw text of slashes, whitespace, a letter and maqqef
RawTexts == StringsUpTo(TextAlphabet, MaxTextLen)

DocTexts ==
    {<<>>, THeb, THeb2, TCant, TJoined, TPieces, TSlashes, TSpace, TProse, TPe,
     TSamekh, TSof, TMaqqef, TLeafMaqqef} \cup RawTexts

\* l.172-176 and l.213-221: the tokens of a raw text: slashes removed,
\* trimmed, and, unless that leaves nothing, split into pieces
CleanPieces(raw) ==
    LET cleanText == Trim(RemoveSlashes(raw))
    IN IF cleanText # <<>> THEN Pieces(cleanText) ELSE <<>>

\* the same, tabulated for the texts of the documents
CleanPiecesOfText == [t \in DocTexts |-> CleanPieces(t)]

PiecesOf(raw) == IF raw \in DocTexts THEN CleanPiecesOfText[raw] ELSE CleanPieces(raw)

-----------------------------------------------------------------------------
(* extractWords, one step of the recursion per action. A frame of the       *)
(* stack is a suspended loop or a call about to start:                      *)
(*   call     extractWords(node) is entered                                 *)
(*   items    for (const item of content), next index i        (l.191)      *)
(*   entries  for (const [key, value] of Object.entries(elem)) (l.250)      *)
(*   rdgs     for (const rdg of rdgArray)                (l.259, l.284)     *)
(*   notes    for (const note of noteArray)                    (l.277)      *)
(*   restore  isInsideQere = prevIsInsideQere            (l.267, l.291)     *)
(*   root     the loop over the verse element's entries        (l.307)      *)

CallFrame(n) == [op |-> "call", node |-> n]
ItemsFrame(n, i) == [op |-> "items", node |-> n, i |-> i]
MutEntriesFrameNoAdvance(n, i) == [op |-> "entries", node |-> n, i |-> 1]
EntriesFrame(n, i) == [op |-> "entries", node |-> n, i |-> i]
RdgsFrame(arr, i) == [op |-> "rdgs", arr |-> arr, i |-> i]
NotesFrame(arr, i) == [op |-> "notes", arr |-> arr, i |-> i]
RestoreFrame(prev) == [op |-> "restore", prev |-> prev]
RootFrame(n, i) == [op |-> "root", node |-> n, i |-> i]

NoVariant == "none"

\* the `strongs` property of a word: undefined for a text-leaf word (l.177-184)
\* and, at l.242, for an empty result (strongs.length > 0 ? strongs : undefined)
NoStrongs == [defined |-> FALSE, list |-> <<>>]

MutStrongsFieldKeepsEmpty(strongs) == [defined |-> TRUE, list |-> strongs]

StrongsField(strongs) ==
    IF Len(strongs) > 0 THEN [defined |-> TRUE, list |-> strongs] ELSE NoStrongs

\* words.push({...}) of the text-leaf branch for each piece (l.177)
LeafWords(pieces, p) ==
    [i \in 1..Len(pieces) |->
        [position |-> p + i - 1, text |-> pieces[i], lemma |-> <<>>, morph |-> <<>>,
         strongs |-> NoStrongs, variant |-> NoVariant, metadata |-> {},
         source |-> [lemma |-> <<>>, morph |-> <<>>, type |-> <<>>]]]

\* the variant of a word of the element branch (l.224-229)
MutVariantQereFirst(elemType, inside) ==
    IF inside THEN "qere" ELSE IF elemType = TypeKetiv THEN "ketiv" ELSE NoVariant

VariantOf(elemType, inside) ==
    IF elemType = TypeKetiv THEN "ketiv" ELSE IF inside THEN "qere" ELSE NoVariant

\* l.218: const strongs = extractStrongs(lemma || null, text), tabulated for
\* the lemma values of the documents
DocLemmas == {<<>>, Str3318, Str1471a, StrL, StrB990, <<"6">>}

StrongsOfLemma == [l \in DocLemmas |-> extractStrongs(l, "import")]

\* words.push({...}) of the element branch for each piece (l.237)
ElemWords(pieces, p, elemType, lemma, morph, inside) ==
    [i \in 1..Len(pieces) |->
        [position |-> p + i - 1, text |-> pieces[i], lemma |-> lemma, morph |-> morph,
         strongs |-> StrongsField(IF lemma \in DocLemmas THEN StrongsOfLemma[lemma]
                                  ELSE extractStrongs(lemma, "import")),
         variant |-> VariantOf(elemType, inside), metadata |-> {},
         source |-> [lemma |-> lemma, morph |-> morph, type |-> elemType]]]

\* the segment test (l.205-210): the element is skipped with its children
MutSkipAnyType(elemType) == elemType # <<>>

MutSkipNothing(elemType) == FALSE

IsSkippedSegment(elemType) ==
    elemType # <<>> /\ StartsWith(elemType, XDash)
        /\ elemType # TypeKetiv /\ elemType # TypeQere

\* the reading test (l.260-263, l.285-287)
MutFollowAnyRdg(rdg) == ~Falsy(rdg) /\ IsObject(rdg)

IsQereRdg(rdg) == ~Falsy(rdg) /\ IsObject(rdg) /\ GetStr(rdg, KeyType) = TypeQere

Top(v) == Head(stack[v])
Rest(v) == Tail(stack[v])
Walking(v) == v \in 1..Len(stack) /\ stack[v] # <<>>

Set(f, v, x) == [f EXCEPT ![v] = x]

\* findVerses reaches the next verse element (l.159-166): fresh words, pos
\* and isInsideQere, and the loop over the verse's entries starts (l.307)
\* let pos = 1 (l.165), whatever the counters of the verses before stand at
MutInitialPosContinues(before) == IF before = <<>> THEN 1 ELSE before[Len(before)]

InitialPos(before) == 1

BeginWalk ==
    /\ pc = "parse"
    /\ Len(stack) < Len(doc)
    /\ stack' = Append(stack, <<RootFrame(doc[Len(stack) + 1], 1)>>)
    /\ words' = Append(words, <<>>)
    /\ pos' = Append(pos, InitialPos(pos))
    /\ isInsideQere' = Append(isInsideQere, FALSE)
    /\ UNCHANGED <<strongsVars, loadVars, gemVars, doc, verses, saved, pc>>

\* findVerses is synchronous: the walk of the verse before has returned
BeginVerse ==
    /\ \A v \in 1..Len(stack) : stack[v] = <<>>
    /\ BeginWalk

\* l.307-311: one iteration of the loop over the verse element's entries
RootEntry(v) ==
    /\ Walking(v) /\ Top(v).op = "root"
    /\ Top(v).i <= Len(Top(v).node.ents)
    /\ LET e == Top(v).node.ents[Top(v).i]
           next == RootFrame(Top(v).node, Top(v).i + 1)
       IN stack' = Set(stack, v,
              IF ~StartsWith(e.key, AttrPrefix)
              THEN <<CallFrame(e.val), next>> \o Rest(v)
              ELSE <<next>> \o Rest(v))
    /\ UNCHANGED <<strongsVars, loadVars, gemVars, doc, words, pos, isInsideQere, verses, saved, pc>>

\* l.169: if (!content) return
ExtractFalsy(v) ==
    /\ Walking(v) /\ Top(v).op = "call"
    /\ Falsy(Top(v).node)
    /\ stack' = Set(stack, v, Rest(v))
    /\ UNCHANGED <<strongsVars, loadVars, gemVars, doc, words, pos, isInsideQere, verses, saved, pc>>

\* l.171-188: a text leaf
ExtractString(v) ==
    /\ Walking(v) /\ Top(v).op = "call"
    /\ Top(v).node.kind = "str" /\ ~Falsy(Top(v).node)
    /\ LET pieces == PiecesOf(Top(v).node.str)
       IN /\ words' = Set(words, v, words[v] \o LeafWords(pieces, pos[v]))
          /\ pos' = Set(pos, v, pos[v] + Len(pieces))
    /\ stack' = Set(stack, v, Rest(v))
    /\ UNCHANGED <<strongsVars, loadVars, gemVars, doc, isInsideQere, verses, saved, pc>>

\* l.190-195: a list; the loop over its items starts
ExtractArray(v) ==
    /\ Walking(v) /\ Top(v).op = "call"
    /\ Top(v).node.kind = "list"
    /\ stack' = Set(stack, v, <<ItemsFrame(Top(v).node, 1)>> \o Rest(v))
    /\ UNCHANGED <<strongsVars, loadVars, gemVars, doc, words, pos, isInsideQere, verses, saved, pc>>

\* l.191-193: one iteration, or the end of the loop and the return
ArrayItem(v) ==
    /\ Walking(v) /\ Top(v).op = "items"
    /\ stack' = Set(stack, v,
          IF Top(v).i <= Len(Top(v).node.items)
          THEN <<CallFrame(Top(v).node.items[Top(v).i]),
                 ItemsFrame(Top(v).node, Top(v).i + 1)>> \o Rest(v)
          ELSE Rest(v))
    /\ UNCHANGED <<strongsVars, loadVars, gemVars, doc, words, pos, isInsideQere, verses, saved, pc>>

\* l.197-210: an element with inline text that is a skipped segment
ExtractSegment(v) ==
    /\ Walking(v) /\ Top(v).op = "call"
    /\ Top(v).node.kind = "map"
    /\ ~Falsy(Get(Top(v).node, KeyText))
    /\ IsSkippedSegment(GetStr(Top(v).node, KeyType))
    /\ stack' = Set(stack, v, Rest(v))
    /\ UNCHANGED <<strongsVars, loadVars, gemVars, doc, words, pos, isInsideQere, verses, saved, pc>>

\* l.197-250: any other element: its inline text, if any, is emitted
\* (l.212-248) and the loop over its entries starts
ExtractElement(v) ==
    /\ Walking(v) /\ Top(v).op = "call"
    /\ Top(v).node.kind = "map"
    /\ LET elem == Top(v).node
           hasText == ~Falsy(Get(elem, KeyText))
           elemType == GetStr(elem, KeyType)
           pieces == IF hasText THEN PiecesOf(GetStr(elem, KeyText)) ELSE <<>>
       IN /\ ~(hasText /\ IsSkippedSegment(elemType))
          /\ words' = Set(words, v, words[v] \o
                ElemWords(pieces, pos[v], elemType, GetStr(elem, KeyLemma),
                          GetStr(elem, KeyMorph), isInsideQere[v]))
          /\ pos' = Set(pos, v, pos[v] + Len(pieces))
          /\ stack' = Set(stack, v, <<EntriesFrame(elem, 1)>> \o Rest(v))
    /\ UNCHANGED <<strongsVars, loadVars, gemVars, doc, isInsideQere, verses, saved, pc>>

\* the frames one entry of an element pushes (l.250-302)
MutEntryFramesWalkCatchWord(e) ==
    IF e.key = KeyRdg THEN <<RdgsFrame(AsArray(e.val), 1)>>
    ELSE IF e.key = KeyNote THEN <<NotesFrame(AsArray(e.val), 1)>>
    ELSE IF ~StartsWith(e.key, AttrPrefix) /\ e.key # KeyText THEN <<CallFrame(e.val)>>
    ELSE <<>>

MutEntryFramesSkipUnknown(e) ==
    IF e.key = KeyRdg THEN <<RdgsFrame(AsArray(e.val), 1)>>
    ELSE IF e.key = KeyNote THEN <<NotesFrame(AsArray(e.val), 1)>>
    ELSE IF e.key \in {KeyW, KeySeg} THEN <<CallFrame(e.val)>>
    ELSE <<>>

EntryFrames(e) ==
    IF e.key = KeyCatchWord THEN <<>>
    ELSE IF e.key = KeyRdg THEN <<RdgsFrame(AsArray(e.val), 1)>>
    ELSE IF e.key = KeyNote THEN <<NotesFrame(AsArray(e.val), 1)>>
    ELSE IF ~StartsWith(e.key, AttrPrefix) /\ e.key # KeyText THEN <<CallFrame(e.val)>>
    ELSE <<>>

\* l.250-303: one iteration of the loop over the element's entries, or the
\* end of the loop and the return
ElementEntry(v) ==
    /\ Walking(v) /\ Top(v).op = "entries"
    /\ stack' = Set(stack, v,
          IF Top(v).i <= Len(Top(v).node.ents)
          THEN EntryFrames(Top(v).node.ents[Top(v).i])
               \o <<EntriesFrame(Top(v).node, Top(v).i + 1)>> \o Rest(v)
          ELSE Rest(v))
    /\ UNCHANGED <<strongsVars, loadVars, gemVars, doc, words, pos, isInsideQere, verses, saved, pc>>

\* l.259-270 and l.284-294: one iteration of the loop over the readings: an
\* x-qere reading is entered with the flag saved and set; any other is passed
RdgItem(v) ==
    /\ Walking(v) /\ Top(v).op = "rdgs"
    /\ IF Top(v).i <= Len(Top(v).arr)
       THEN LET rdg == Top(v).arr[Top(v).i]
                next == RdgsFrame(Top(v).arr, Top(v).i + 1)
            IN IF IsQereRdg(rdg)
               THEN /\ stack' = Set(stack, v,
                          <<CallFrame(rdg), RestoreFrame(isInsideQere[v]), next>> \o Rest(v))
                    /\ isInsideQere' = Set(isInsideQere, v, TRUE)
               ELSE /\ stack' = Set(stack, v, <<next>> \o Rest(v))
                    /\ UNCHANGED isInsideQere
       ELSE /\ stack' = Set(stack, v, Rest(v))
            /\ UNCHANGED isInsideQere
    /\ UNCHANGED <<strongsVars, loadVars, gemVars, doc, words, pos, verses, saved, pc>>

\* the value the flag takes when extractWords(rdg) has returned (l.267, l.291)
MutRestoreFalse(prev) == FALSE

MutRestoreTrue(prev) == TRUE

Restored(prev) == prev

RestoreQere(v) ==
    /\ Walking(v) /\ Top(v).op = "restore"
    /\ isInsideQere' = Set(isInsideQere, v, Restored(Top(v).prev))
    /\ stack' = Set(stack, v, Rest(v))
    /\ UNCHANGED <<strongsVars, loadVars, gemVars, doc, words, pos, verses, saved, pc>>

\* l.277-297: one iteration of the loop over the notes: only the note's rdg
\* entry, if it has one, is looked at
NoteItem(v) ==
    /\ Walking(v) /\ Top(v).op = "notes"
    /\ stack' = Set(stack, v,
          IF Top(v).i <= Len(Top(v).arr)
          THEN LET note == Top(v).arr[Top(v).i]
                   next == NotesFrame(Top(v).arr, Top(v).i + 1)
               IN IF ~Falsy(note) /\ IsObject(note) /\ ~Falsy(Get(note, KeyRdg))
                  THEN <<RdgsFrame(AsArray(Get(note, KeyRdg)), 1), next>> \o Rest(v)
                  ELSE <<next>> \o Rest(v)
          ELSE Rest(v))
    /\ UNCHANGED <<strongsVars, loadVars, gemVars, doc, words, pos, isInsideQere, verses, saved, pc>>

\* s.join(' ')
RECURSIVE Join(_)
Join(ts) ==
    IF ts = <<>> THEN <<>>
    ELSE IF Len(ts) = 1 THEN ts[1]
    ELSE ts[1] \o <<" ">> \o Join(Tail(ts))

Texts(ws) == [i \in 1..Len(ws) |-> ws[i].text]

\* extractWords(content) as one recursive function (l.168-305): the words it
\* pushes when the counter stands at p and the reading flag at inside. The
\* flag is restored after each reading (l.267, l.291), so the calls that
\* follow a reading see the caller's value
RECURSIVE extractWords(_, _, _), WalkItems(_, _, _, _), WalkEntries(_, _, _, _),
          WalkRdgs(_, _, _), WalkNotes(_, _, _)

\* l.259-270, l.284-294: the readings from the i-th on
WalkRdgs(arr, i, p) ==
    IF i > Len(arr) THEN <<>>
    ELSE LET ws == IF IsQereRdg(arr[i]) THEN extractWords(arr[i], TRUE, p) ELSE <<>>
         IN ws \o WalkRdgs(arr, i + 1, p + Len(ws))

\* l.277-297: the notes from the i-th on
WalkNotes(arr, i, p) ==
    IF i > Len(arr) THEN <<>>
    ELSE LET note == arr[i]
             ws == IF ~Falsy(note) /\ IsObject(note) /\ ~Falsy(Get(note, KeyRdg))
                   THEN WalkRdgs(AsArray(Get(note, KeyRdg)), 1, p)
                   ELSE <<>>
         IN ws \o WalkNotes(arr, i + 1, p + Len(ws))

\* l.250-303: the entries of an element from the i-th on
WalkEntries(ents, i, inside, p) ==
    IF i > Len(ents) THEN <<>>
    ELSE LET e == ents[i]
             ws == IF e.key = KeyCatchWord THEN <<>>
                   ELSE IF e.key = KeyRdg THEN WalkRdgs(AsArray(e.val), 1, p)
                   ELSE IF e.key = KeyNote THEN WalkNotes(AsArray(e.val), 1, p)
                   ELSE IF ~StartsWith(e.key, AttrPrefix) /\ e.key # KeyText
                        THEN extractWords(e.val, inside, p)
                   ELSE <<>>
         IN ws \o WalkEntries(ents, i + 1, inside, p + Len(ws))

\* l.191-193: the items of a list from the i-th on
WalkItems(items, i, inside, p) ==
    IF i > Len(items) THEN <<>>
    ELSE LET ws == extractWords(items[i], inside, p)
         IN ws \o WalkItems(items, i + 1, inside, p + Len(ws))

extractWords(content, inside, p) ==
    IF Falsy(content) THEN <<>>
    ELSE IF content.kind = "str" THEN LeafWords(PiecesOf(content.str), p)
    ELSE IF content.kind = "list" THEN WalkItems(content.items, 1, inside, p)
    ELSE LET hasText == ~Falsy(Get(content, KeyText))
             elemType == GetStr(content, KeyType)
             pieces == IF hasText THEN PiecesOf(GetStr(content, KeyText)) ELSE <<>>
             own == ElemWords(pieces, p, elemType, GetStr(content, KeyLemma),
                              GetStr(content, KeyMorph), inside)
         IN IF hasText /\ IsSkippedSegment(elemType) THEN <<>>
            ELSE own \o WalkEntries(content.ents, 1, inside, p + Len(own))

\* l.307-311: the words of a verse element: every entry but the attributes
RECURSIVE WalkRoot(_, _, _)
WalkRoot(ents, i, p) ==
    IF i > Len(ents) THEN <<>>
    ELSE LET ws == IF ~StartsWith(ents[i].key, AttrPrefix)
                   THEN extractWords(ents[i].val, FALSE, p)
                   ELSE <<>>
         IN ws \o WalkRoot(ents, i + 1, p + Len(ws))

\* l.307-323: the loop over the verse's entries ends; a verse with words is
\* pushed to the results
FinishVerse(v) ==
    /\ Walking(v) /\ Top(v).op = "root"
    /\ Top(v).i > Len(Top(v).node.ents)
    /\ stack' = Set(stack, v, Rest(v))
    /\ verses' = IF Len(words[v]) > 0
                 THEN Append(verses, [number |-> v, text |-> Join(Texts(words[v])),
                                      words |-> words[v]])
                 ELSE verses
    /\ UNCHANGED <<strongsVars, loadVars, gemVars, doc, words, pos, isInsideQere, saved, pc>>

\* l.332-333 and l.434: findVerses has visited the whole document
ParseReturn ==
    /\ pc = "parse"
    /\ Len(stack) = Len(doc)
    /\ \A v \in 1..Len(stack) : stack[v] = <<>>
    /\ pc' = "save"
    /\ UNCHANGED <<strongsVars, loadVars, gemVars, doc, stack, words, pos, isInsideQere, verses, saved>>


-----------------------------------------------------------------------------
(* The post-filter and saveVerse *)

HasHebrew(text) == \E i \in 1..Len(text) : text[i] \in HebrewRange

HasDigit(s) == \E i \in 1..Len(s) : s[i] \in DigitChars

\* l.341-346
MutNoteIgnoresHebrew(w) == w.lemma = <<>> /\ w.morph = <<>>

isTextualCriticalNote(w) ==
    IF w.lemma # <<>> \/ w.morph # <<>> THEN FALSE ELSE ~HasHebrew(w.text)

\* l.352-354
isParagraphMarker(w) ==
    w.lemma = <<>> /\ w.morph = <<>> /\ (w.text = <<"pe">> \/ w.text = <<"samekh">>)

\* l.367-370
Metadata(w) ==
    IF w.lemma # <<>> /\ ~HasDigit(w.lemma)
    THEN w.metadata \cup {"isPrefixOnly"} ELSE w.metadata

\* the position a kept word is written with (l.373)
MutKeepPosition(w, position) == w.position

PositionOf(w, position) == position

\* l.361-382: the loop over verse.words, with its counter
RECURSIVE FilterLoop(_, _)
FilterLoop(ws, position) ==
    IF ws = <<>> THEN <<>>
    ELSE LET w == Head(ws)
         IN IF isTextualCriticalNote(w) \/ isParagraphMarker(w)
            THEN FilterLoop(Tail(ws), position)
            ELSE <<[position |-> PositionOf(w, position), text |-> w.text,
                    lemma |-> w.lemma, morph |-> w.morph, strongs |-> w.strongs,
                    variant |-> w.variant, metadata |-> Metadata(w),
                    source |-> w.source]>>
                 \o FilterLoop(Tail(ws), position + 1)

\* the text written with the record (l.386)
MutTextOfParse(verse, wordEntries) == verse.text

TextOf(verse, wordEntries) == Join(Texts(wordEntries))

\* l.356-395: the VerseData written to <book>/<chapter>/<number>.json
VerseData(verse) ==
    LET wordEntries == FilterLoop(verse.words, 1)
    IN [number |-> verse.number, text |-> TextOf(verse, wordEntries),
        words |-> wordEntries]

\* l.436-439: main saves the next verse of the list
SaveVerse ==
    /\ pc = "save"
    /\ Len(saved) < Len(verses)
    /\ saved' = Append(saved, VerseData(verses[Len(saved) + 1]))
    /\ UNCHANGED <<strongsVars, loadVars, gemVars, doc, stack, words, pos, isInsideQere, verses, pc>>

\* l.440-444: every verse is saved
MainDone ==
    /\ pc = "save"
    /\ Len(saved) = Len(verses)
    /\ pc' = "done"
    /\ UNCHANGED <<strongsVars, loadVars, gemVars, doc, stack, words, pos, isInsideQere, verses, saved>>


-----------------------------------------------------------------------------
(* The documents the walk is checked on *)

\* longest list of sibling elements under one key
MaxList == 2

\* most verse elements in one document
MaxVerses == 2

Morph1 == <<"H", "N", "p">>
Morph2 == <<"H", "V", "q">>
TypeLarge == <<"x", "-", "l", "a", "r", "g", "e">>

\* an entry, unless the value is absent
Opt(k, s) == IF s = <<>> THEN <<>> ELSE <<Entry(k, StrNode(s))>>

\* an element with attributes, inline text and child entries, in the order
\* the parser adds the keys
Elem(type, lemma, morph, text, kids) ==
    MapNode(Opt(KeyType, type) \o Opt(KeyLemma, lemma) \o Opt(KeyMorph, morph)
            \o kids \o Opt(KeyText, text))

W(type, lemma, morph, text) == Elem(type, lemma, morph, text, <<>>)

WPlain == W(<<>>, Str3318, Morph1, THeb)
WOther == W(<<>>, Str1471a, Morph2, TCant)
WKetiv == W(TypeKetiv, <<"6">>, Morph2, THeb2)
WPrefixOnly == W(<<>>, StrL, Morph1, TJoined)
WPieces == W(<<>>, StrB990, Morph1, TPieces)
WQereTyped == W(TypeQere, Str3318, Morph1, THeb2)
WBare == W(<<>>, <<>>, <<>>, TPe)
\* a word element with a child the format does not define
WUnknownChild == Elem(<<>>, Str3318, Morph1, THeb, <<Entry(KeyFoo, WOther)>>)

WNoLemma == W(<<>>, <<>>, Morph2, THeb2)

\* the non-empty lists of at most n items
RECURSIVE ListsUpTo(_, _)
ListsUpTo(items, n) ==
    IF n = 0 THEN {}
    ELSE {<<x>> : x \in items}
         \cup {Append(l, x) : l \in ListsUpTo(items, n - 1), x \in items}

\* readings
Rdg(type, text, kids) == Elem(type, <<>>, <<>>, text, kids)

RdgQere == Rdg(TypeQere, TSpace, <<Entry(KeyW, WPlain)>>)
RdgQereInline == Rdg(TypeQere, THeb2, <<>>)
RdgQereKetiv == Rdg(TypeQere, <<>>, <<Entry(KeyW, ListNode(<<WKetiv, WOther>>))>>)
RdgQereLeaves == Rdg(TypeQere, <<>>, <<Entry(KeySeg, ListNode(<<StrNode(THeb), StrNode(TProse)>>))>>)
RdgAccent == Rdg(TypeAccent, THeb, <<>>)
RdgAccentW == Rdg(TypeAccent, TSpace, <<Entry(KeyW, WPlain)>>)
RdgUntyped == StrNode(THeb)
RdgNested == Rdg(TypeQere, <<>>, <<Entry(KeyRdg, RdgQereInline), Entry(KeyW, WOther)>>)
RdgNestedNote ==
    Rdg(TypeQere, <<>>,
        <<Entry(KeyNote, MapNode(<<Entry(KeyRdg, ListNode(<<RdgAccent, RdgQere>>))>>)),
          Entry(KeyW, WOther)>>)

RdgValues ==
    {RdgQere, RdgQereInline, RdgQereKetiv, RdgQereLeaves, RdgAccent, RdgAccentW,
     RdgUntyped, RdgNested, RdgNestedNote}
    \cup {ListNode(l) : l \in ListsUpTo({RdgQere, RdgAccent}, MaxList)}

\* notes: <note type=...>text<catchWord>..</catchWord><rdg ..>..</rdg></note>
Note(type, text, kids) == Elem(type, <<>>, <<>>, text, kids)

CatchWord == Entry(KeyCatchWord, StrNode(THeb2))

NotesWithRdg ==
    {Note(TypeVariant, TSpace, <<CatchWord, Entry(KeyRdg, r)>>) : r \in RdgValues}

NoteProse == StrNode(TProse)
NoteProseMap == Note(TypeVariant, TProse, <<>>)
NoteAccentText == Note(TypeAlternative, THeb, <<CatchWord, Entry(KeyRdg, RdgAccent)>>)
NoteAccentChild ==
    Note(TypeAlternative, <<>>, <<CatchWord, Entry(KeyRdg, RdgAccent), Entry(KeyW, WPlain)>>)
NoteQereText == Note(TypeVariant, THeb, <<CatchWord, Entry(KeyRdg, RdgQere)>>)

Notes == NotesWithRdg \cup {NoteProse, NoteProseMap, NoteAccentText, NoteAccentChild, NoteQereText}

NoteLists ==
    {ListNode(l) : l \in ListsUpTo({Note(TypeAlternative, TSpace, <<CatchWord, Entry(KeyRdg, RdgAccent)>>),
                                    Note(TypeVariant, TSpace, <<CatchWord, Entry(KeyRdg, RdgQere)>>)},
                                   MaxList)}

\* a word element that holds a note, and a wrapper element that holds one
WithNote(n) == Elem(<<>>, Str3318, Morph1, THeb, <<Entry(KeyNote, n)>>)

\* what the verse element holds under "w"
WValues ==
    {WPlain, WKetiv, WPrefixOnly, WPieces, WQereTyped, WBare, WNoLemma, WUnknownChild}
    \cup {ListNode(l) : l \in ListsUpTo({WPlain, WKetiv, WPrefixOnly}, MaxList)}
    \cup {WithNote(n) : n \in {NoteAccentText, NoteQereText, NoteProse, NoteProseMap,
                               Note(TypeVariant, TSpace, <<CatchWord, Entry(KeyRdg, RdgNested)>>)}}

\* what it holds under "note"
NoteValues == Notes \cup NoteLists

\* what it holds under "seg"
SegValues ==
    {Elem(TypeSofPasuq, <<>>, <<>>, TSof, <<>>),
     Elem(TypeLarge, <<>>, <<>>, THeb, <<Entry(KeyW, WPlain)>>),
     Elem(TypeLarge, <<>>, <<>>, <<>>, <<Entry(KeyW, WPlain)>>),
     StrNode(TSamekh)}

\* any other entry of the verse element
OtherEntries ==
    {Entry(KeyText, StrNode(TSpace)), Entry(KeyText, StrNode(TProse)),
     Entry(KeyText, StrNode(TMaqqef)), Entry(KeyText, StrNode(TSlashes)),
     Entry(KeyCatchWord, StrNode(THeb)), Entry(KeyRdg, RdgQere),
     Entry(KeyFoo, MapNode(<<Entry(KeyW, WOther)>>)),
     Entry(KeyFoo, StrNode(<<>>)), Entry(KeyN, StrNode(<<"1">>))}

OptEntries(k, values) == {<<>>} \cup {<<Entry(k, x)>> : x \in values}

\* <verse osisID=..> with its children grouped by name
Verse(w, n, s, o) ==
    MapNode(<<Entry(KeyOsisID, StrNode(<<"G", ".", "1", ".", "1">>))>> \o w \o n \o s \o o)

CoreW == {<<Entry(KeyW, WPlain)>>, <<Entry(KeyW, ListNode(<<WPlain, WKetiv>>))>>}

CoreNotes ==
    {<<>>,
     <<Entry(KeyNote, Note(TypeVariant, TSpace, <<CatchWord, Entry(KeyRdg, RdgQere)>>))>>,
     <<Entry(KeyNote, NoteAccentText)>>}

\* a reading inside a reading, with words after the inner and after the outer
NestedVerse ==
    Verse(<<Entry(KeyW, WPlain)>>,
          <<Entry(KeyNote, Note(TypeVariant, TSpace, <<CatchWord, Entry(KeyRdg, RdgNested)>>))>>,
          <<>>, <<Entry(KeyFoo, MapNode(<<Entry(KeyW, WOther)>>))>>)

\* a raw text as the inline text of a word element and as a text leaf
RawVerse(t) ==
    Verse(<<Entry(KeyW, W(<<>>, Str3318, Morph1, t))>>, <<>>, <<>>,
          <<Entry(KeyText, StrNode(t))>>)

\* the verse elements: every word value with every note value, the core
\* ones with every segment and every other entry, and every raw text
VerseElems ==
    {Verse(<<Entry(KeyW, WPieces)>>, <<>>, <<>>, <<Entry(KeyText, StrNode(TLeafMaqqef))>>),
     NestedVerse}
    \cup {RawVerse(t) : t \in RawTexts}
    \cup {Verse(w, n, <<>>, <<>>) :
        w \in OptEntries(KeyW, WValues), n \in OptEntries(KeyNote, NoteValues)}
    \cup {Verse(w, n, s, o) :
        w \in CoreW, n \in CoreNotes,
        s \in OptEntries(KeySeg, SegValues), o \in {<<>>} \cup {<<e>> : e \in OtherEntries}}

\* verses of the two test fixtures, for documents with several verses
FixtureVerses ==
    {MapNode(<<Entry(KeyW, ListNode(<<WPlain, WKetiv>>)),
               Entry(KeyNote, Note(TypeVariant, TSpace, <<CatchWord, Entry(KeyRdg, RdgQere)>>))>>),
     MapNode(<<Entry(KeyW, WPlain),
               Entry(KeyNote, Note(TypeAlternative, TSpace, <<CatchWord, Entry(KeyRdg, RdgAccent)>>))>>),
     MapNode(<<Entry(KeyText, StrNode(TSpace))>>)}

RECURSIVE DocsOfLen(_)
DocsOfLen(n) ==
    IF n = 1 THEN {<<x>> : x \in FixtureVerses}
    ELSE {Append(d, x) : d \in DocsOfLen(n - 1), x \in FixtureVerses}

Documents ==
    {<<x>> : x \in VerseElems} \cup UNION {DocsOfLen(n) : n \in 2..MaxVerses}

-----------------------------------------------------------------------------
(* The importer: parseOsis over one document, then saveVerse per verse *)

StrongsIdle ==
    /\ script = "import"
    /\ sAbsent = FALSE
    /\ sValue = <<>>
    /\ lastIndex = 0
    /\ sResults = <<>>
    /\ sPc = "idle"
    /\ sCalls = 0

LoadIdle ==
    /\ lReq = [book |-> "", chapter |-> 0, verse |-> 0]
    /\ lFiles = <<>>
    /\ lPc = "idle"
    /\ lOut = [kind |-> "none"]
    /\ lDir = <<>>

GemIdle ==
    /\ gWord = <<>>
    /\ gPc = "idle"
    /\ gOut = [standard |-> 0, ordinal |-> 0]
    /\ uOut = <<>>

WalkIdle ==
    /\ doc = <<>>
    /\ stack = <<>>
    /\ words = <<>>
    /\ pos = <<>>
    /\ isInsideQere = <<>>
    /\ verses = <<>>
    /\ saved = <<>>
    /\ pc = "done"

Init ==
    /\ StrongsIdle /\ LoadIdle /\ GemIdle
    /\ doc \in Documents
    /\ stack = <<>>
    /\ words = <<>>
    /\ pos = <<>>
    /\ isInsideQere = <<>>
    /\ verses = <<>>
    /\ saved = <<>>
    /\ pc = "parse"

Next ==
    \/ BeginVerse
    \/ \E v \in 1..Len(stack) : RootEntry(v)
    \/ \E v \in 1..Len(stack) : ExtractFalsy(v)
    \/ \E v \in 1..Len(stack) : ExtractString(v)
    \/ \E v \in 1..Len(stack) : ExtractArray(v)
    \/ \E v \in 1..Len(stack) : ArrayItem(v)
    \/ \E v \in 1..Len(stack) : ExtractSegment(v)
    \/ \E v \in 1..Len(stack) : ExtractElement(v)
    \/ \E v \in 1..Len(stack) : ElementEntry(v)
    \/ \E v \in 1..Len(stack) : RdgItem(v)
    \/ \E v \in 1..Len(stack) : RestoreQere(v)
    \/ \E v \in 1..Len(stack) : NoteItem(v)
    \/ \E v \in 1..Len(stack) : FinishVerse(v)
    \/ ParseReturn
    \/ SaveVerse
    \/ MainDone

Spec == Init /\ [][Next]_vars

\* extractStrongs alone, call after call on the same regex object
InitStrongs == StrongsInit /\ WalkIdle /\ LoadIdle /\ GemIdle

NextStrongs == StrongsCall \/ StrongsCallNull \/ StrongsExec \/ StrongsReturn

\* the importer runs to completion: main awaits each step in turn and nothing
\* else is scheduled (l.415-449)
FairSpec == Spec /\ WF_vars(Next)

SpecStrongs == InitStrongs /\ [][NextStrongs]_vars


-----------------------------------------------------------------------------
(* Two verse walks whose steps interleave, each on its own words, pos and  *)
(* isInsideQere (l.163-166); extractStrongs runs within one step           *)

InterleavedVerses ==
    FixtureVerses
    \cup {NestedVerse,
          Verse(<<Entry(KeyW, WithNote(NoteQereText))>>, <<>>,
                <<Entry(KeySeg, Elem(TypeSofPasuq, <<>>, <<>>, TSof, <<>>))>>,
                <<Entry(KeyFoo, StrNode(<<>>))>>)}

InitInterleaved ==
    /\ StrongsIdle /\ LoadIdle /\ GemIdle
    /\ doc \in {<<a, b>> : a \in InterleavedVerses, b \in InterleavedVerses}
    /\ stack = <<>>
    /\ words = <<>>
    /\ pos = <<>>
    /\ isInsideQere = <<>>
    /\ verses = <<>>
    /\ saved = <<>>
    /\ pc = "parse"

NextInterleaved ==
    \/ BeginWalk
    \/ \E v \in 1..Len(stack) : RootEntry(v)
    \/ \E v \in 1..Len(stack) : ExtractFalsy(v)
    \/ \E v \in 1..Len(stack) : ExtractString(v)
    \/ \E v \in 1..Len(stack) : ExtractArray(v)
    \/ \E v \in 1..Len(stack) : ArrayItem(v)
    \/ \E v \in 1..Len(stack) : ExtractSegment(v)
    \/ \E v \in 1..Len(stack) : ExtractElement(v)
    \/ \E v \in 1..Len(stack) : ElementEntry(v)
    \/ \E v \in 1..Len(stack) : RdgItem(v)
    \/ \E v \in 1..Len(stack) : RestoreQere(v)
    \/ \E v \in 1..Len(stack) : NoteItem(v)
    \/ \E v \in 1..Len(stack) : FinishVerse(v)

SpecInterleaved == InitInterleaved /\ [][NextInterleaved]_vars

-----------------------------------------------------------------------------
(* The reader (source.ts): loadVerse over the data directory *)

\* BOOK_TO_OSIS: the own keys of the table that occur in the model
BOOK_TO_OSIS == [b \in {"Genesis", "Exodus"} |-> IF b = "Genesis" THEN "Gen" ELSE "Exod"]

\* names every object literal inherits from Object.prototype: the lookup
\* BOOK_TO_OSIS[book] yields a function for them, not a string
InheritedKeys == {"constructor", "toString"}

\* BOOK_TO_OSIS[book] || book: a string, or the inherited (truthy) value
toOsis(book) ==
    IF book \in DOMAIN BOOK_TO_OSIS
    THEN [type |-> "string", val |-> BOOK_TO_OSIS[book]]
    ELSE IF book \in InheritedKeys THEN [type |-> "function", val |-> book]
    ELSE [type |-> "string", val |-> book]

\* join(DATA_PATH, osisBook, String(chapter), `${verse}.json`)
FilePath(osisBook, chapter, verse) == <<osisBook, chapter, verse>>

\* the text of a verse file as JSON tokens
TextRecord == <<"{", "\"text\"", ":", "\"alef\"", "}">>
TextTruncated == <<"{", "\"text\"", ":">>
TextEmpty == <<>>

\* the text a stored verse holds, by verse number
VerseToken == (1 :> "\"alef\"") @@ (2 :> "\"bet\"") @@ (10 :> "\"yod\"")

StringTokens == {"\"text\"", "\"alef\"", "\"bet\"", "\"yod\""}

\* JSON.parse on the one-member objects of the model: the value, or a
\* SyntaxError
JSONparse(t) ==
    IF Len(t) = 5 /\ t[1] = "{" /\ t[2] \in StringTokens /\ t[3] = ":"
           /\ t[4] \in StringTokens /\ t[5] = "}"
    THEN [ok |-> TRUE, value |-> [key |-> t[2], val |-> t[4]]]
    ELSE [ok |-> FALSE, value |-> [key |-> "", val |-> ""]]

NoFile == [exists |-> FALSE, text |-> <<>>]
File(t) == [exists |-> TRUE, text |-> t]

\* readFile(filePath, 'utf-8'): a path outside the directory has no file
readFile(path) == IF path \in DOMAIN lFiles THEN lFiles[path] ELSE NoFile

\* new Error(`Verse ${book} ${chapter}:${verse} not found in openscriptures-OHB`)
NotFound(req) ==
    [name |-> "Error", text |-> "Verse _ _:_ not found in openscriptures-OHB",
     args |-> <<req.book, req.chapter, req.verse>>]

\* what path.join throws on an argument that is not a string
PathTypeError ==
    [name |-> "TypeError", text |-> "The \"path\" argument must be of type string",
     args |-> <<>>]

Books == {"Genesis", "Gen", "Ruth", "constructor"}
MaxChapter == 1
MaxVerseNumber == 3
StoredPaths == {<<"Gen", 1, 1>>, <<"Gen", 1, 2>>}
FileStates == {NoFile, File(TextRecord), File(TextTruncated), File(TextEmpty)}

\* l.82-84: the call; toOsis and join run before the try block
LoadCall ==
    /\ lPc = "idle"
    /\ \E book \in Books, chapter \in 1..MaxChapter, verse \in 1..MaxVerseNumber :
          LET osisBook == toOsis(book)
          IN /\ lReq' = [book |-> book, chapter |-> chapter, verse |-> verse]
             /\ IF osisBook.type = "string"
                THEN /\ lPc' = "read"
                     /\ lOut' = [kind |-> "path",
                                 path |-> FilePath(osisBook.val, chapter, verse)]
                ELSE /\ lPc' = "thrown"
                     /\ lOut' = [kind |-> "error", error |-> PathTypeError]
    /\ UNCHANGED <<strongsVars, walkVars, gemVars, lFiles, lDir>>

\* l.87: await readFile; a rejection lands in the catch block (l.89-91)
LoadRead ==
    /\ lPc = "read"
    /\ LET file == readFile(lOut.path)
       IN IF file.exists
          THEN /\ lPc' = "parse"
               /\ lOut' = [kind |-> "content", text |-> file.text]
          ELSE /\ lPc' = "thrown"
               /\ lOut' = [kind |-> "error", error |-> NotFound(lReq)]
    /\ UNCHANGED <<strongsVars, walkVars, gemVars, lReq, lFiles, lDir>>

\* l.88: return JSON.parse(content); a SyntaxError lands in the catch block
LoadParse ==
    /\ lPc = "parse"
    /\ LET parsed == JSONparse(lOut.text)
       IN IF parsed.ok
          THEN /\ lPc' = "returned"
               /\ lOut' = [kind |-> "value", value |-> parsed.value]
          ELSE /\ lPc' = "thrown"
               /\ lOut' = [kind |-> "error", error |-> NotFound(lReq)]
    /\ UNCHANGED <<strongsVars, walkVars, gemVars, lReq, lFiles, lDir>>

InitLoad ==
    /\ StrongsIdle /\ WalkIdle /\ GemIdle
    /\ lReq = [book |-> "", chapter |-> 0, verse |-> 0]
    /\ lFiles \in [StoredPaths -> FileStates]
    /\ lPc = "idle"
    /\ lOut = [kind |-> "none"]
    /\ lDir = <<>>

NextLoad == LoadCall \/ LoadRead \/ LoadParse

SpecLoad == InitLoad /\ [][NextLoad]_vars

-----------------------------------------------------------------------------
(* Gematria: computeHebrew of the core library, called once per word by    *)
(* the targeted update (l.537, l.565)                                      *)

\* the 22 letters in alphabet order
Alphabet ==
    <<"alef", "bet", "gimel", "dalet", "he", "vav", "zayin", "het", "tet",
      "yod", "kaf", "lamed", "mem", "nun", "samekh", "ayin", "pe", "tsadi",
      "qof", "resh", "shin", "tav">>

\* the final forms and their base letters
FinalForms ==
    [finalkaf |-> "kaf", finalmem |-> "mem", finalnun |-> "nun", finalpe |-> "pe",
     finaltsadi |-> "tsadi"]

\* the traditional value table
StandardTable ==
    [alef |-> 1, bet |-> 2, gimel |-> 3, dalet |-> 4, he |-> 5, vav |-> 6,
     zayin |-> 7, het |-> 8, tet |-> 9, yod |-> 10, kaf |-> 20, lamed |-> 30,
     mem |-> 40, nun |-> 50, samekh |-> 60, ayin |-> 70, pe |-> 80, tsadi |-> 90,
     qof |-> 100, resh |-> 200, shin |-> 300, tav |-> 400]

\* the values of the final forms under the other tradition (500-900)
GadolTable ==
    [finalkaf |-> 500, finalmem |-> 600, finalnun |-> 700, finalpe |-> 800,
     finaltsadi |-> 900]

BaseLetter(c) == IF c \in DOMAIN FinalForms THEN FinalForms[c] ELSE c

\* a consonant; vowel points, cantillation marks and maqqef are none
IsConsonant(c) == BaseLetter(c) \in DOMAIN StandardTable

MutStandardValueGadol(c) ==
    IF c \in DOMAIN GadolTable THEN GadolTable[c] ELSE StandardTable[BaseLetter(c)]

StandardValue(c) == StandardTable[BaseLetter(c)]

OrdinalValue(c) == CHOOSE k \in 1..Len(Alphabet) : Alphabet[k] = BaseLetter(c)

RECURSIVE SumStandard(_), SumOrdinal(_)
SumStandard(word) ==
    IF word = <<>> THEN 0
    ELSE (IF IsConsonant(Head(word)) THEN StandardValue(Head(word)) ELSE 0)
         + SumStandard(Tail(word))

SumOrdinal(word) ==
    IF word = <<>> THEN 0
    ELSE (IF IsConsonant(Head(word)) THEN OrdinalValue(Head(word)) ELSE 0)
         + SumOrdinal(Tail(word))

computeHebrew(word) == [standard |-> SumStandard(word), ordinal |-> SumOrdinal(word)]

\* Gen 32:29, word 10: yod hiriq, shin sheva sin-dot, resh qamats, alef tsere, lamed
Israel ==
    <<"yod", "hiriq", "shin", "sheva", "sindot", "resh", "qamats", "alef", "tsere",
      "lamed">>

\* longest word drawn from the alphabet below
MaxWordLen == 3

GemAlphabet == {"yod", "shin", "mem", "finalmem", "hiriq", "maqqef"}

GemWords == StringsUpTo(GemAlphabet, MaxWordLen) \cup {Israel}

InitGem ==
    /\ StrongsIdle /\ WalkIdle /\ LoadIdle
    /\ gWord \in GemWords
    /\ gPc = "idle"
    /\ gOut = [standard |-> 0, ordinal |-> 0]
    /\ uOut = <<>>

\* const gematria = computeHebrew(piece) (l.565)
GemCompute ==
    /\ gPc = "idle"
    /\ gOut' = computeHebrew(gWord)
    /\ gPc' = "done"
    /\ UNCHANGED <<strongsVars, walkVars, loadVars, gWord, uOut>>

NextGem == GemCompute

SpecGem == InitGem /\ [][NextGem]_vars

-----------------------------------------------------------------------------
(* The reader: loadChapter over one chapter directory *)

DotJson == <<".", "j", "s", "o", "n">>

\* String.prototype.endsWith
EndsWith(s, suffix) ==
    Len(s) >= Len(suffix) /\ SubSeq(s, Len(s) - Len(suffix) + 1, Len(s)) = suffix

\* s.replace(pattern, ''): the first occurrence of the pattern is removed
ReplaceFirst(s, pattern) ==
    LET at == {q \in 1..Len(s) : StartsWithAt(s, q, pattern)}
    IN IF at = {} THEN s
       ELSE LET q == CHOOSE x \in at : \A y \in at : x <= y
            IN SubSeq(s, 1, q - 1) \o SubSeq(s, q + Len(pattern), Len(s))

\* what stands for NaN
NaN == -1

\* the decimal digits a string starts with
RECURSIVE LeadingDigits(_)
LeadingDigits(s) ==
    IF s = <<>> \/ Head(s) \notin DigitChars THEN <<>>
    ELSE <<Head(s)>> \o LeadingDigits(Tail(s))

\* parseInt(a.replace('.json', ''), 10) (l.104-105)
FileNumber(name) ==
    LET ds == LeadingDigits(ReplaceFirst(name, DotJson))
    IN IF ds = <<>> THEN NaN ELSE parseInt(ds)

\* the comparator (l.103-107): numA - numB; sort takes a NaN result as 0
MutCompareFirstCharacter(a, b) == DigitVal(a[1]) - DigitVal(b[1])

Compare(a, b) ==
    IF FileNumber(a) = NaN \/ FileNumber(b) = NaN THEN 0
    ELSE FileNumber(a) - FileNumber(b)

\* Array.prototype.sort with the comparator: a stable sort
RECURSIVE Insert(_, _), Sort(_)
Insert(x, sorted) ==
    IF sorted = <<>> THEN <<x>>
    ELSE IF Compare(x, Head(sorted)) < 0 THEN <<x>> \o sorted
    ELSE <<Head(sorted)>> \o Insert(x, Tail(sorted))

Sort(names) ==
    IF names = <<>> THEN <<>>
    ELSE Insert(names[Len(names)], Sort(SubSeq(names, 1, Len(names) - 1)))

IsJsonName(f) == EndsWith(f, DotJson)

\* files.filter(f => f.endsWith('.json')).sort(...) (l.103-107)
JsonFiles(files) == Sort(SelectSeq(files, IsJsonName))

\* new Error(`Chapter ${book} ${chapter} not found in openscriptures-OHB`)
ChapterNotFound(req) ==
    [name |-> "Error", text |-> "Chapter _ _ not found in openscriptures-OHB",
     args |-> <<req.book, req.chapter>>]

\* the one chapter directory that exists
ChapterPath == <<"Gen", 1>>

\* the file names a chapter directory holds in the model: verse files, a
\* file of another kind and a backup of a verse file
Name1 == <<"1">> \o DotJson
Name2 == <<"2">> \o DotJson
Name10 == <<"1", "0">> \o DotJson
NameTxt == <<"2", ".", "t", "x", "t">>
NameBak == <<"1", "0">> \o DotJson \o <<".", "b", "a", "k">>
DirNames == {Name1, Name2, Name10, NameTxt, NameBak}

\* most files in the directory
MaxDirLen == 4

\* what the file of that name holds when it is whole
StoredText(name) ==
    IF FileNumber(name) \in DOMAIN VerseToken
    THEN <<"{", "\"text\"", ":", VerseToken[FileNumber(name)], "}">>
    ELSE TextEmpty

\* the sequences of up to n different names
RECURSIVE NameSeqs(_)
NameSeqs(n) ==
    IF n = 0 THEN {<<>>}
    ELSE LET shorter == NameSeqs(n - 1)
         IN shorter \cup
            {Append(l, f) : l \in {t \in shorter : Len(t) = n - 1},
                            f \in DirNames}

NoRepeat(l) == \A i, j \in 1..Len(l) : i # j => l[i] # l[j]

\* the directory listings: the names in any order, each file whole, except
\* that one file (the one at `bad`, if any) may be truncated
DirListings ==
    {[i \in 1..Len(l) |->
        [name |-> l[i], text |-> IF i = bad THEN TextTruncated ELSE StoredText(l[i])]] :
     l \in {t \in NameSeqs(MaxDirLen) : NoRepeat(t)}, bad \in 0..MaxDirLen}

\* l.97-99: the call; toOsis and join run before the try block
ChapterCall ==
    /\ lPc = "idle"
    /\ \E book \in Books, chapter \in 1..MaxChapter :
          LET osisBook == toOsis(book)
          IN /\ lReq' = [book |-> book, chapter |-> chapter, verse |-> 0]
             /\ IF osisBook.type = "string"
                THEN /\ lPc' = "readdir"
                     /\ lOut' = [kind |-> "path", path |-> <<osisBook.val, chapter>>]
                ELSE /\ lPc' = "thrown"
                     /\ lOut' = [kind |-> "error", error |-> PathTypeError]
    /\ UNCHANGED <<strongsVars, walkVars, gemVars, lFiles, lDir>>

\* l.102-107: await readdir, the filter and the sort; a rejection lands in
\* the catch block (l.115-117)
ChapterReaddir ==
    /\ lPc = "readdir"
    /\ IF lOut.path = ChapterPath
       THEN /\ lPc' = "files"
            /\ lOut' = [kind |-> "files",
                        files |-> JsonFiles([i \in 1..Len(lDir) |-> lDir[i].name]),
                        verses |-> <<>>]
       ELSE /\ lPc' = "thrown"
            /\ lOut' = [kind |-> "error", error |-> ChapterNotFound(lReq)]
    /\ UNCHANGED <<strongsVars, walkVars, gemVars, lReq, lFiles, lDir>>

\* readFile(join(chapterPath, file), 'utf-8') (l.111)
readChapterFile(file) ==
    LET at == {i \in 1..Len(lDir) : lDir[i].name = file}
    IN IF at = {} THEN NoFile ELSE File(lDir[CHOOSE i \in at : TRUE].text)

\* l.110-113: one iteration: read and parse the next file; a rejection or a
\* SyntaxError lands in the catch block
ChapterFile ==
    /\ lPc = "files"
    /\ lOut.files # <<>>
    /\ LET file == readChapterFile(Head(lOut.files))
           parsed == JSONparse(file.text)
       IN IF file.exists /\ parsed.ok
          THEN /\ lPc' = "files"
               /\ lOut' = [lOut EXCEPT !.files = Tail(@),
                                       !.verses = Append(@, parsed.value)]
          ELSE /\ lPc' = "thrown"
               /\ lOut' = [kind |-> "error", error |-> ChapterNotFound(lReq)]
    /\ UNCHANGED <<strongsVars, walkVars, gemVars, lReq, lFiles, lDir>>

\* l.114: return verses
ChapterReturn ==
    /\ lPc = "files"
    /\ lOut.files = <<>>
    /\ lPc' = "returned"
    /\ lOut' = [kind |-> "verses", verses |-> lOut.verses]
    /\ UNCHANGED <<strongsVars, walkVars, gemVars, lReq, lFiles, lDir>>

InitChapter ==
    /\ StrongsIdle /\ WalkIdle /\ GemIdle
    /\ lReq = [book |-> "", chapter |-> 0, verse |-> 0]
    /\ lFiles = <<>>
    /\ lDir \in DirListings
    /\ lPc = "idle"
    /\ lOut = [kind |-> "none"]

NextChapter == ChapterCall \/ ChapterReaddir \/ ChapterFile \/ ChapterReturn

SpecChapter == InitChapter /\ [][NextChapter]_vars

-----------------------------------------------------------------------------
(* The targeted update (l.453-685): parseVerse, the walk with boolean      *)
(* ketiv/qere flags, cantillation removed and a gematria record per word   *)

\* the characters of [֑-ֽֿ֯׀׃׆] that
\* occur in the model
Cantillation == {"merkha", "sofpasuq"}

NotCantillation(c) == c \notin Cantillation

\* l.469-471
removeCantillation(text) == SelectSeq(text, NotCantillation)

\* l.563-564: the two flags are set independently of each other
FlagsOf(elemType, inside) ==
    (IF elemType = TypeKetiv THEN {"isKetiv"} ELSE {})
        \cup (IF inside THEN {"isQere"} ELSE {})

\* l.533-538: the words of a text leaf
UpdateLeafWords(content, p) ==
    LET cleanText == removeCantillation(Trim(RemoveSlashes(content)))
        pieces == IF cleanText # <<>> THEN Pieces(cleanText) ELSE <<>>
    IN [i \in 1..Len(pieces) |->
          [position |-> p + i - 1, text |-> pieces[i], lemma |-> <<>>, morph |-> <<>>,
           strongs |-> NoStrongs, metadata |-> {}, gematria |-> computeHebrew(pieces[i])]]

\* l.553-575: the words of an element with inline text
UpdateElemWords(elem, inside, p) ==
    LET elemType == GetStr(elem, KeyType)
        text == Trim(removeCantillation(RemoveSlashes(GetStr(elem, KeyText))))
        lemma == GetStr(elem, KeyLemma)
        pieces == IF text # <<>> THEN Pieces(text) ELSE <<>>
    IN [i \in 1..Len(pieces) |->
          [position |-> p + i - 1, text |-> pieces[i], lemma |-> lemma,
           morph |-> GetStr(elem, KeyMorph),
           strongs |-> StrongsField(extractStrongs(lemma, "update")),
           metadata |-> FlagsOf(elemType, inside),
           gematria |-> computeHebrew(pieces[i])]]

RECURSIVE UpdateWords(_, _, _), UpdateItems(_, _, _, _), UpdateEntries(_, _, _, _),
          processRdg(_, _, _), UpdateNotes(_, _, _)

\* l.513-528: the readings from the i-th on; only x-qere readings are walked
processRdg(arr, i, p) ==
    IF i > Len(arr) THEN <<>>
    ELSE LET ws == IF IsQereRdg(arr[i]) THEN UpdateWords(arr[i], TRUE, p) ELSE <<>>
         IN ws \o processRdg(arr, i + 1, p + Len(ws))

\* l.581-588: the notes from the i-th on
UpdateNotes(arr, i, p) ==
    IF i > Len(arr) THEN <<>>
    ELSE LET note == arr[i]
             ws == IF ~Falsy(note) /\ IsObject(note) /\ ~Falsy(Get(note, KeyRdg))
                   THEN processRdg(AsArray(Get(note, KeyRdg)), 1, p)
                   ELSE <<>>
         IN ws \o UpdateNotes(arr, i + 1, p + Len(ws))

\* l.577-592: the entries of an element from the i-th on
UpdateEntries(ents, i, inside, p) ==
    IF i > Len(ents) THEN <<>>
    ELSE LET e == ents[i]
             ws == IF e.key = KeyCatchWord THEN <<>>
                   ELSE IF e.key = KeyRdg
                        THEN (IF Falsy(e.val) THEN <<>> ELSE processRdg(AsArray(e.val), 1, p))
                   ELSE IF e.key = KeyNote THEN UpdateNotes(AsArray(e.val), 1, p)
                   ELSE IF ~StartsWith(e.key, AttrPrefix) /\ e.key # KeyText
                        THEN UpdateWords(e.val, inside, p)
                   ELSE <<>>
         IN ws \o UpdateEntries(ents, i + 1, inside, p + Len(ws))

\* l.543-546
UpdateItems(items, i, inside, p) ==
    IF i > Len(items) THEN <<>>
    ELSE LET ws == UpdateWords(items[i], inside, p)
         IN ws \o UpdateItems(items, i + 1, inside, p + Len(ws))

\* l.530-594: extractWords of parseVerse
UpdateWords(content, inside, p) ==
    IF Falsy(content) THEN <<>>
    ELSE IF content.kind = "str" THEN UpdateLeafWords(content.str, p)
    ELSE IF content.kind = "list" THEN UpdateItems(content.items, 1, inside, p)
    ELSE LET hasText == ~Falsy(Get(content, KeyText))
             own == IF hasText THEN UpdateElemWords(content, inside, p) ELSE <<>>
         IN IF hasText /\ IsSkippedSegment(GetStr(content, KeyType)) THEN <<>>
            ELSE own \o UpdateEntries(content.ents, 1, inside, p + Len(own))

\* l.596-599: the loop over the verse element's entries
RECURSIVE UpdateRoot(_, _, _)
UpdateRoot(ents, i, p) ==
    IF i > Len(ents) THEN <<>>
    ELSE LET ws == IF ~StartsWith(ents[i].key, AttrPrefix)
                   THEN UpdateWords(ents[i].val, FALSE, p)
                   ELSE <<>>
         IN ws \o UpdateRoot(ents, i + 1, p + Len(ws))

\* l.602-607: totals[k] = (totals[k] || 0) + v over the words in order
RECURSIVE Totals(_, _)
Totals(ws, totals) ==
    IF ws = <<>> THEN totals
    ELSE LET g == Head(ws).gematria
             add(t, k) == (k :> ((IF k \in DOMAIN t THEN t[k] ELSE 0) + g[k])) @@ t
         IN Totals(Tail(ws), add(add(totals, "standard"), "ordinal"))

\* l.499-610
parseVerse(verse) ==
    LET ws == UpdateRoot(verse.ents, 1, 1)
    IN [text |-> Join(Texts(ws)), words |-> ws, gematria |-> Totals(ws, <<>>)]

\* l.662-682: main parses a verse and writes the record as it is
UpdateVerse ==
    /\ pc = "done"
    /\ Len(uOut) < Len(doc)
    /\ uOut' = Append(uOut, parseVerse(doc[Len(uOut) + 1]))
    /\ UNCHANGED <<strongsVars, walkVars, loadVars, gWord, gPc, gOut>>

\* the importer and then the targeted update over the same verse elements
NextUpdate == Next \/ UpdateVerse

SpecUpdate == Init /\ [][NextUpdate]_vars

-----------------------------------------------------------------------------
(* Properties *)

Finished(v) == v \in 1..Len(stack) /\ stack[v] = <<>>

\* the walk of v is inside an x-qere reading: a reading's restore is pending
InReading(v) == \E i \in 1..Len(stack[v]) : stack[v][i].op = "restore"

\* the words the step added to verse v
Added(v) == {i \in 1..Len(words'[v]) : i > Len(words[v])}

Dropped(w) == isTextualCriticalNote(w) \/ isParagraphMarker(w)

\* C1: in every record written by saveVerse the i-th word (counting from 1)
\* has position i: the positions start at 1 and ascend by 1 without gaps or
\* repeats, whichever words the filter dropped.
C1_PositionsContiguous ==
    \A r \in 1..Len(saved) : \A i \in 1..Len(saved[r].words) :
        saved[r].words[i].position = i

\* a record is written whose first raw word was dropped and whose later raw
\* words were kept
C1_Witness ==
    \E r \in 1..Len(saved) :
        /\ Len(saved[r].words) >= 2
        /\ Dropped(verses[r].words[1])
        /\ ~Dropped(verses[r].words[Len(verses[r].words)])

\* C2: in every record written by saveVerse, `text` is the texts of the
\* record's own words joined by single spaces in list order: splitting it at
\* the spaces gives back exactly the words' texts, one piece per word.
C2_TextIsJoinOfWords ==
    \A r \in 1..Len(saved) :
        /\ saved[r].text = Join(Texts(saved[r].words))
        /\ SelectSeq(Split(saved[r].text), NonEmpty) = Texts(saved[r].words)
        /\ Cardinality({i \in 1..Len(saved[r].text) : saved[r].text[i] = " "})
             = (IF saved[r].words = <<>> THEN 0 ELSE Len(saved[r].words) - 1)

\* a record is written with fewer words than the walk produced, so the text
\* parseOsis computed differs from the one written
C2_Witness ==
    \E r \in 1..Len(saved) :
        /\ Len(saved[r].words) >= 2
        /\ Len(saved[r].words) < Len(verses[r].words)
        /\ saved[r].text # verses[r].text

\* C3: no word the walk emits, from a text leaf or from an element, and no
\* word of a parsed or saved verse, has text equal to the maqqef character.
C3_NoMaqqefWord ==
    /\ \A v \in 1..Len(words) : \A i \in 1..Len(words[v]) : words[v][i].text # MAQQEF
    /\ \A r \in 1..Len(verses) : \A i \in 1..Len(verses[r].words) :
           verses[r].words[i].text # MAQQEF
    /\ \A r \in 1..Len(saved) : \A i \in 1..Len(saved[r].words) :
           saved[r].words[i].text # MAQQEF

\* a verse is saved whose element text and whose text leaf both hold a
\* maqqef standing alone between spaces
C3_Witness ==
    /\ Len(saved) = 1
    /\ Get(doc[1], KeyW) = WPieces
    /\ Get(doc[1], KeyText) = StrNode(TLeafMaqqef)
    /\ \E i \in 1..Len(Split(Trim(TPieces))) : Split(Trim(TPieces))[i] = MAQQEF
    /\ \E i \in 1..Len(Split(Trim(TLeafMaqqef))) : Split(Trim(TLeafMaqqef))[i] = MAQQEF
    /\ Len(saved[1].words) =
         Len(SelectSeq(Split(Trim(RemoveSlashes(TPieces))), NonEmpty))
         + Len(SelectSeq(Split(Trim(RemoveSlashes(TLeafMaqqef))), NonEmpty)) - 2


\* the pieces the normaliser makes of an element's inline text
TextPieces(e) == Pieces(Trim(RemoveSlashes(GetStr(e, KeyText))))

OnlySpace(s) == \A i \in 1..Len(s) : s[i] \in WhiteSpace

\* the keys of a map are among ks
KeysWithin(e, ks) == \A i \in 1..Len(e.ents) : e.ents[i].key \in ks

\* a childless <w> with a lemma and a one-piece text
IsWordElem(e) ==
    /\ e.kind = "map"
    /\ KeysWithin(e, {KeyType, KeyLemma, KeyMorph, KeyText})
    /\ GetStr(e, KeyLemma) # <<>>
    /\ Len(TextPieces(e)) = 1

\* the verse of the ketiv/qere fixture: word elements, exactly one of them
\* typed x-ketiv, and one note holding a catchWord and an x-qere reading
\* that wraps one untyped word element
IsKetivQereVerse(t) ==
    LET ws == AsArray(Get(t, KeyW))
        note == Get(t, KeyNote)
        rdg == Get(note, KeyRdg)
    IN /\ KeysWithin(t, {KeyOsisID, KeyW, KeyNote})
       /\ Get(t, KeyW) # Undefined
       /\ \A i \in 1..Len(ws) :
              IsWordElem(ws[i]) /\ GetStr(ws[i], KeyType) \in {<<>>, TypeKetiv}
       /\ Cardinality({i \in 1..Len(ws) : GetStr(ws[i], KeyType) = TypeKetiv}) = 1
       /\ note.kind = "map"
       /\ KeysWithin(note, {KeyType, KeyText, KeyCatchWord, KeyRdg})
       /\ OnlySpace(GetStr(note, KeyText))
       /\ Get(note, KeyCatchWord) # Undefined
       /\ rdg.kind = "map"
       /\ KeysWithin(rdg, {KeyType, KeyText, KeyW})
       /\ OnlySpace(GetStr(rdg, KeyText))
       /\ GetStr(rdg, KeyType) = TypeQere
       /\ IsWordElem(Get(rdg, KeyW))
       /\ GetStr(Get(rdg, KeyW), KeyType) = <<>>

HasVariant(w) == w.variant # NoVariant

IsAccentNote(n) ==
    /\ n.kind = "map"
    /\ Get(n, KeyRdg) # Undefined
    /\ \A i \in 1..Len(AsArray(Get(n, KeyRdg))) :
          /\ AsArray(Get(n, KeyRdg))[i].kind = "map"
          /\ GetStr(AsArray(Get(n, KeyRdg))[i], KeyType) = TypeAccent

\* a childless untyped <w>
IsPlainWord(e) ==
    e.kind = "map" /\ KeysWithin(e, {KeyLemma, KeyMorph, KeyText})

RECURSIVE CountPieces(_)
CountPieces(es) ==
    IF es = <<>> THEN 0 ELSE Len(TextPieces(Head(es))) + CountPieces(Tail(es))

\* a verse of plain word elements and of notes with x-accent readings only
IsAccentVerse(t) ==
    /\ KeysWithin(t, {KeyOsisID, KeyW, KeyNote})
    /\ Get(t, KeyW) # Undefined /\ Get(t, KeyNote) # Undefined
    /\ \A i \in 1..Len(AsArray(Get(t, KeyW))) : IsPlainWord(AsArray(Get(t, KeyW))[i])
    /\ \A i \in 1..Len(AsArray(Get(t, KeyNote))) : IsAccentNote(AsArray(Get(t, KeyNote))[i])

\* C5: a note whose reading is typed x-accent contributes no word, from the
\* reading or from anything else in the note, whether it has one reading or
\* a list: a verse of word elements and such notes has exactly the words of
\* its word elements.
C5_AccentNoteNoWords ==
    \A v \in 1..Len(stack) :
        (Finished(v) /\ IsAccentVerse(doc[v])) =>
            Len(words[v]) = CountPieces(AsArray(Get(doc[v], KeyW)))

\* C5 for the notes the walk meets under the key "note" of an element (the
\* dispatch of l.274-299): the step over such a note adds no word and leaves
\* only the loop over its readings, each of which is passed
C5_NestedAccentNoteNoWords ==
    [][\A v \in 1..Len(stack) :
          (Walking(v) /\ Top(v).op = "notes" /\ Top(v).i <= Len(Top(v).arr)
             /\ IsAccentNote(Top(v).arr[Top(v).i]))
          => /\ words'[v] = words[v]
             /\ stack'[v] = <<RdgsFrame(AsArray(Get(Top(v).arr[Top(v).i], KeyRdg)), 1),
                              NotesFrame(Top(v).arr, Top(v).i + 1)>> \o Rest(v)]_vars

\* C6: an element with inline text whose type begins with "x-" and is neither
\* x-ketiv nor x-qere emits no word and returns without walking any of its
\* entries; an element with inline text typed x-ketiv or x-qere, or without a
\* type, emits the pieces of its text and goes on to walk its entries.
C6_SegmentSkipped ==
    [][\A v \in 1..Len(stack) :
          (Walking(v) /\ Top(v).op = "call" /\ Top(v).node.kind = "map"
             /\ ~Falsy(Get(Top(v).node, KeyText)))
          => LET ty == GetStr(Top(v).node, KeyType)
             IN /\ (StartsWith(ty, XDash) /\ ty # TypeKetiv /\ ty # TypeQere)
                     => (words'[v] = words[v] /\ stack'[v] = Rest(v))
                /\ (ty \in {<<>>, TypeKetiv, TypeQere})
                     => /\ stack'[v] = <<EntriesFrame(Top(v).node, 1)>> \o Rest(v)
                        /\ Len(words'[v]) = Len(words[v]) + Len(TextPieces(Top(v).node))
                        /\ \A i \in Added(v) :
                              words'[v][i].text = TextPieces(Top(v).node)[i - Len(words[v])]]_vars

\* a verse is saved whose typed segment holds text and a word element, and
\* only the verse's own word is written
C6_Witness ==
    /\ pc = "done"
    /\ Get(doc[1], KeySeg) = Elem(TypeLarge, <<>>, <<>>, THeb, <<Entry(KeyW, WPlain)>>)
    /\ Get(doc[1], KeyW) = WPlain
    /\ Get(doc[1], KeyNote) = Undefined
    /\ Len(doc[1].ents) = 3
    /\ Len(saved) = 1 /\ Len(saved[1].words) = 1

\* C7: the inside-qere flag is set exactly while the walk is inside an x-qere
\* reading: a reading's return puts back the value the flag had when the
\* reading was entered (also for a reading inside a reading), the flag is
\* false when the verse walk has ended, and no word emitted outside every
\* reading is tagged qere.
C7_QereFlagScoped ==
    /\ [](\A v \in 1..Len(stack) : isInsideQere[v] <=> InReading(v))
    /\ [](\A v \in 1..Len(stack) : Finished(v) => ~isInsideQere[v])
    /\ [][\A v \in 1..Len(stack) :
            /\ (Walking(v) /\ Top(v).op = "restore")
                 => (isInsideQere'[v] <=>
                       \E i \in 2..Len(stack[v]) : stack[v][i].op = "restore")
            /\ (Walking(v) /\ ~InReading(v))
                 => \A i \in Added(v) : words'[v][i].variant # "qere"]_vars

\* the walk of the verse with a reading inside a reading is over: the word
\* after the inner reading is still tagged qere, the one after the outer is not
C7_Witness ==
    /\ doc[1] = NestedVerse
    /\ Finished(1)
    /\ Len(words[1]) = 4
    /\ words[1][1].variant = NoVariant
    /\ words[1][2].variant = "qere" /\ words[1][3].variant = "qere"
    /\ words[1][4].variant = NoVariant
    /\ ~isInsideQere[1]

\* C8: every word of parseOsis's output is standard, ketiv or qere, and is
\* tagged ketiv exactly when its element is typed x-ketiv, also inside an
\* x-qere reading; a word is tagged qere only when emitted with the flag
\* set, and a word emitted with the flag clear from an element not typed
\* x-ketiv has no variant.
C8_VariantExclusive ==
    /\ [](\A r \in 1..Len(verses) : \A i \in 1..Len(verses[r].words) :
            LET w == verses[r].words[i]
            IN /\ w.variant \in {NoVariant, "ketiv", "qere"}
               /\ (w.variant = "ketiv" <=> w.source.type = TypeKetiv))
    /\ [][\A v \in 1..Len(stack) : \A i \in Added(v) :
            LET w == words'[v][i]
            IN /\ (GetStr(Top(v).node, KeyType) = TypeKetiv) => w.variant = "ketiv"
               /\ w.variant = "qere" => isInsideQere[v]
               /\ (~isInsideQere[v] /\ GetStr(Top(v).node, KeyType) # TypeKetiv)
                    => w.variant = NoVariant]_vars

\* a verse is parsed whose x-qere reading holds an element typed x-ketiv and
\* an untyped one: the first is tagged ketiv, the second qere
C8_Witness ==
    \E r \in 1..Len(verses) : \E i \in 1..Len(verses[r].words) :
        /\ Get(Get(doc[verses[r].number], KeyNote), KeyRdg) = RdgQereKetiv
        /\ i < Len(verses[r].words)
        /\ verses[r].words[i].variant = "ketiv"
        /\ verses[r].words[i + 1].variant = "qere"
        /\ \E j \in 1..Len(verses[r].words) : verses[r].words[j].variant = NoVariant



\* the grammatical-prefix letters of the lemma attribute
GrammaticalPrefixes == {"b", "c", "d", "i", "k", "l", "m", "s"}

\* the letters that occur as a disambiguation suffix in the model
SuffixLetters == {"a", "b", "c", "h", "l", "g", "H", "G"}

\* the digits at the end of s, and what precedes them
RECURSIVE DigitSuffix(_)
DigitSuffix(s) ==
    IF s # <<>> /\ s[Len(s)] \in DigitChars
    THEN Append(DigitSuffix(SubSeq(s, 1, Len(s) - 1)), s[Len(s)])
    ELSE <<>>

BeforeDigits(s) == SubSeq(s, 1, Len(s) - Len(DigitSuffix(s)))

\* a digit string without its leading zeros
RECURSIVE Canon(_)
Canon(ds) == IF Len(ds) > 1 /\ Head(ds) = "0" THEN Canon(Tail(ds)) ELSE ds

\* slash-joined grammatical-prefix letters, then a number of 1 to 5 digits
IsPrefixedNumber(s) ==
    /\ Len(DigitSuffix(s)) \in 1..MaxDigits
    /\ Len(BeforeDigits(s)) % 2 = 0
    /\ \A i \in 1..Len(BeforeDigits(s)) :
          IF i % 2 = 1 THEN s[i] \in GrammaticalPrefixes ELSE s[i] = "/"

\* a number of 1 to 5 digits, a space, one letter
IsSuffixedNumber(s) ==
    /\ Len(s) \in 3..(MaxDigits + 2)
    /\ \A i \in 1..(Len(s) - 2) : s[i] \in DigitChars
    /\ s[Len(s) - 1] = " "
    /\ s[Len(s)] \in SuffixLetters

\* C9: for a lemma that is a number of 1 to 5 digits, optionally preceded by
\* slash-joined grammatical-prefix letters, extractStrongs returns exactly
\* the one code "H" followed by the number, in the importer and in the
\* targeted update alike.
C9_ShortNumbers ==
    (sPc = "done" /\ ~sAbsent /\ IsPrefixedNumber(sValue))
        => sResults = <<<<"H">> \o Canon(DigitSuffix(sValue))>>

\* C10: for a lemma made of a number of 1 to 5 digits, a space and one
\* letter, the importer's extractStrongs returns exactly one code, "H"
\* followed by the number: the letter is neither consumed nor taken as a
\* prefix, and it does not suppress the match.
C10_LetterSuffix ==
    (sPc = "done" /\ script = "import" /\ IsSuffixedNumber(sValue))
        => sResults = <<<<"H">> \o Canon(SubSeq(sValue, 1, Len(sValue) - 2))>>

\* the importer's call on "1 h" is over, with the one code H1
C10_Witness ==
    /\ sPc = "done" /\ script = "import"
    /\ sValue = <<"1", " ", "h">>
    /\ sResults = <<<<"H", "1">>>>

\* C11: the importer's extractStrongs returns the empty list exactly when
\* its argument is absent, is the empty string or holds no decimal digit; a
\* lemma of grammatical-prefix letters and slashes gives [], and a lemma
\* with a digit gives at least one code.
C11_EmptyIffNoDigit ==
    (sPc = "done" /\ script = "import")
        => (sResults = <<>>
              <=> (sAbsent \/ sValue = <<>>
                   \/ \A i \in 1..Len(sValue) : sValue[i] \notin DigitChars))

\* the importer's call on "c/l" is over with no code
C11_Witness ==
    /\ sPc = "done" /\ script = "import" /\ ~sAbsent
    /\ sValue = StrCL
    /\ sResults = <<>>

\* the reference scan: the longest run of at most 5 digits at index q
RefRun(v, q) ==
    LET ns == {n \in 0..MaxDigits :
                 \A i \in q..(q + n - 1) : i <= Len(v) /\ v[i] \in DigitChars}
    IN CHOOSE n \in ns : \A k \in ns : k <= n

\* the reference result: left to right, at each index an optional H/G letter
\* followed by 1 to 5 digits gives one code and the scan goes on after it
RECURSIVE RefCodes(_, _)
RefCodes(v, i) ==
    IF i > Len(v) THEN <<>>
    ELSE LET lettered == v[i] \in {"H", "G", "h", "g"} /\ RefRun(v, i + 1) > 0
             d == IF lettered THEN i + 1 ELSE i
             n == RefRun(v, d)
             prefix == IF ~lettered \/ v[i] \in {"H", "h"} THEN "H" ELSE "G"
         IN IF n = 0 THEN RefCodes(v, i + 1)
            ELSE <<<<prefix>> \o Canon(SubSeq(v, d, d + n - 1))>> \o RefCodes(v, d + n)

\* C12: the list the importer's extractStrongs returns is the reference
\* result: one code per non-overlapping left-to-right match of an optional
\* H/G letter and 1 to 5 digits, in match order, repeats kept, each code the
\* prefix (H by default, else the letter upper-cased) and the number without
\* leading zeros.
C12_MatchesReference ==
    (sPc = "done" /\ script = "import" /\ ~sAbsent)
        => sResults = RefCodes(sValue, 1)

\* the importer's call on "3605/3605" is over with the code H3605 twice
C12_Witness ==
    /\ sPc = "done" /\ script = "import"
    /\ sValue = Str3605x2
    /\ sResults = <<<<"H", "3", "6", "0", "5">>, <<"H", "3", "6", "0", "5">>>>

\* C13: in every record written by saveVerse, a word whose lemma holds no
\* digit character has metadata.isPrefixOnly = true and carries no strongs
\* list.
C13_PrefixOnlyFlagged ==
    \A r \in 1..Len(saved) : \A i \in 1..Len(saved[r].words) :
        LET w == saved[r].words[i]
        IN ~HasDigit(w.lemma)
             => ("isPrefixOnly" \in w.metadata /\ ~w.strongs.defined)

\* C13 for the words that have a lemma: a written word with a non-empty lemma
\* without digit is flagged and carries no strongs list, and a written word
\* without lemma carries no strongs list
C13_PrefixOnlyWhenLemma ==
    \A r \in 1..Len(saved) : \A i \in 1..Len(saved[r].words) :
        LET w == saved[r].words[i]
        IN /\ (w.lemma # <<>> /\ ~HasDigit(w.lemma))
                => ("isPrefixOnly" \in w.metadata /\ ~w.strongs.defined)
           /\ w.lemma = <<>> => ~w.strongs.defined

\* C14: in every record written by saveVerse, a word whose lemma holds a
\* digit carries a non-empty strongs list and is not flagged isPrefixOnly;
\* no word is both flagged and given a code, and no word carries an empty
\* strongs list.
C14_StrongsWhenDigit ==
    \A r \in 1..Len(saved) : \A i \in 1..Len(saved[r].words) :
        LET w == saved[r].words[i]
        IN /\ HasDigit(w.lemma)
                => (w.strongs.defined /\ w.strongs.list # <<>>
                    /\ "isPrefixOnly" \notin w.metadata)
           /\ ~("isPrefixOnly" \in w.metadata /\ w.strongs.defined)
           /\ w.strongs.defined => w.strongs.list # <<>>

\* a record is written with a word that carries a code and a word flagged
\* isPrefixOnly without one
C14_Witness ==
    \E r \in 1..Len(saved) : \E i, j \in 1..Len(saved[r].words) :
        /\ saved[r].words[i].lemma = Str3318
        /\ saved[r].words[i].strongs = [defined |-> TRUE, list |-> <<<<"H", "3", "3", "1", "8">>>>]
        /\ saved[r].words[i].metadata = {}
        /\ saved[r].words[j].lemma = StrL
        /\ saved[r].words[j].metadata = {"isPrefixOnly"}
        /\ ~saved[r].words[j].strongs.defined

\* the steps the walk still has to take for a pending call, loop or restore:
\* one per call, one per loop iteration and one for the end of each loop
RECURSIVE CallCost(_), ItemsCost(_, _), EntriesCost(_, _), RdgsCost(_, _),
          NotesCost(_, _), RootCost(_, _), FrameCost(_), FramesCost(_)
CallCost(n) ==
    IF Falsy(n) \/ n.kind = "str" THEN 1
    ELSE IF n.kind = "list" THEN 1 + ItemsCost(n.items, 1)
    ELSE 1 + EntriesCost(n.ents, 1)

ItemsCost(items, i) ==
    IF i > Len(items) THEN 1
    ELSE 1 + CallCost(items[i]) + ItemsCost(items, i + 1)

EntriesCost(ents, i) ==
    IF i > Len(ents) THEN 1
    ELSE 1 + FramesCost(EntryFrames(ents[i])) + EntriesCost(ents, i + 1)

RdgsCost(arr, i) ==
    IF i > Len(arr) THEN 1
    ELSE 1 + (IF IsQereRdg(arr[i]) THEN CallCost(arr[i]) + 1 ELSE 0)
           + RdgsCost(arr, i + 1)

NotesCost(arr, i) ==
    IF i > Len(arr) THEN 1
    ELSE 1 + (IF ~Falsy(arr[i]) /\ IsObject(arr[i]) /\ ~Falsy(Get(arr[i], KeyRdg))
              THEN RdgsCost(AsArray(Get(arr[i], KeyRdg)), 1) ELSE 0)
           + NotesCost(arr, i + 1)

RootCost(ents, i) ==
    IF i > Len(ents) THEN 1
    ELSE 1 + (IF ~StartsWith(ents[i].key, AttrPrefix) THEN CallCost(ents[i].val) ELSE 0)
           + RootCost(ents, i + 1)

FrameCost(f) ==
    CASE f.op = "call" -> CallCost(f.node)
      [] f.op = "items" -> ItemsCost(f.node.items, f.i)
      [] f.op = "entries" -> EntriesCost(f.node.ents, f.i)
      [] f.op = "rdgs" -> RdgsCost(f.arr, f.i)
      [] f.op = "notes" -> NotesCost(f.arr, f.i)
      [] f.op = "restore" -> 1
      [] f.op = "root" -> RootCost(f.node.ents, f.i)

FramesCost(fs) == IF fs = <<>> THEN 0 ELSE FrameCost(Head(fs)) + FramesCost(Tail(fs))

\* the verses whose walk has emitted a word
WithWords == {v \in 1..Len(words) : words[v] # <<>>}

KnownKeys == {KeyW, KeySeg, KeyNote, KeyRdg, KeyCatchWord, KeyText}

Unknown(e) == ~StartsWith(e.key, AttrPrefix) /\ e.key \notin KnownKeys

RECURSIVE DropUnknown(_)
DropUnknown(ents) ==
    IF ents = <<>> THEN <<>>
    ELSE (IF Unknown(Head(ents)) THEN <<>> ELSE <<Head(ents)>>) \o DropUnknown(Tail(ents))

HasUnknown(ents) == \E i \in 1..Len(ents) : Unknown(ents[i])

\* the verse has run through its walk
Walked(v) == v \in 1..Len(stack) /\ stack[v] = <<>>

LoadDone == lPc \in {"returned", "thrown"}

\* the stored file of the request, looked up under the book's directory name
StoredFile ==
    LET dir == IF lReq.book \in DOMAIN BOOK_TO_OSIS THEN BOOK_TO_OSIS[lReq.book]
               ELSE lReq.book
        path == <<dir, lReq.chapter, lReq.verse>>
    IN IF path \in DOMAIN lFiles THEN lFiles[path] ELSE NoFile

\* the one error of loadVerse: it names the requested book, chapter and verse
NamesRequest(e) ==
    e.name = "Error" /\ e.args = <<lReq.book, lReq.chapter, lReq.verse>>

LoadOutcome ==
    IF StoredFile.exists /\ JSONparse(StoredFile.text).ok
    THEN lPc = "returned" /\ lOut = [kind |-> "value", value |-> JSONparse(StoredFile.text).value]
    ELSE lPc = "thrown" /\ NamesRequest(lOut.error)

\* C17: loadVerse returns the parsed stored record, or fails with the one
\* error that names the requested book, chapter and verse; that is the
\* outcome for a missing file and for a file that is not valid JSON
C17_RecordOrNamedError == LoadDone => LoadOutcome

\* C17 for the book names that the table does not inherit
C17_RecordOrNamedErrorOwnNames ==
    (LoadDone /\ lReq.book \notin InheritedKeys) => LoadOutcome

C17_Witness ==
    /\ lPc = "thrown" /\ StoredFile.exists /\ ~JSONparse(StoredFile.text).ok
    /\ NamesRequest(lOut.error)

\* the value the rule gives the k-th letter: the first nine 1-9, the next
\* nine 10-90 by tens, the last four 100-400
RuleValue(k) == IF k <= 9 THEN k ELSE IF k <= 18 THEN (k - 9) * 10 ELSE (k - 18) * 100

\* the consonants of a word, a final form as its base letter
RECURSIVE Consonants(_)
Consonants(word) ==
    IF word = <<>> THEN <<>>
    ELSE (IF IsConsonant(Head(word)) THEN <<BaseLetter(Head(word))>> ELSE <<>>)
         \o Consonants(Tail(word))

Position(c) == CHOOSE k \in 1..Len(Alphabet) : Alphabet[k] = c

RECURSIVE RuleSum(_), PositionSum(_)
RuleSum(cs) == IF cs = <<>> THEN 0 ELSE RuleValue(Position(Head(cs))) + RuleSum(Tail(cs))
PositionSum(cs) == IF cs = <<>> THEN 0 ELSE Position(Head(cs)) + PositionSum(Tail(cs))

\* C18: the standard gematria of a word is the sum of the rule's values of
\* its consonants and the ordinal gematria the sum of their alphabet
\* positions, points, accents and maqqef ignored and a final form counted as
\* its base letter; Israel gives 541 and 64, a word without consonant 0 and 0
C18_GematriaSums ==
    gPc = "done" =>
        /\ gOut.standard = RuleSum(Consonants(gWord))
        /\ gOut.ordinal = PositionSum(Consonants(gWord))
        /\ gWord = Israel => gOut = [standard |-> 541, ordinal |-> 64]
        /\ Consonants(gWord) = <<>> => gOut = [standard |-> 0, ordinal |-> 0]

C18_Witness ==
    /\ gPc = "done" /\ gOut.standard > 0
    /\ \E i \in 1..Len(gWord) : gWord[i] \in DOMAIN FinalForms
    /\ \E i \in 1..Len(gWord) : ~IsConsonant(gWord[i])

\* the tree with every single child node held as a one-element list, at
\* every depth (attributes and inline text are no child nodes)
RECURSIVE AsLists(_)
AsLists(n) ==
    IF n.kind = "map"
    THEN MapNode([i \in 1..Len(n.ents) |->
            LET e == n.ents[i]
            IN IF StartsWith(e.key, AttrPrefix) \/ e.key = KeyText THEN e
               ELSE IF e.val.kind = "list" THEN Entry(e.key, AsLists(e.val))
               ELSE Entry(e.key, ListNode(<<AsLists(e.val)>>))])
    ELSE IF n.kind = "list"
    THEN ListNode([i \in 1..Len(n.items) |-> AsLists(n.items[i])])
    ELSE n

\* the verse with the single child under its j-th entry held as a list
WithListAt(verse, j) ==
    MapNode([i \in 1..Len(verse.ents) |->
        LET e == verse.ents[i]
        IN IF i = j /\ ~StartsWith(e.key, AttrPrefix) /\ e.key # KeyText
                /\ e.val.kind # "list"
           THEN Entry(e.key, ListNode(<<e.val>>))
           ELSE e])

\* C19: a single child node and the same node as a one-element list give the
\* same words: under generic keys and under rdg and note, one entry at a
\* time and at every depth at once
C19_SingletonAsList ==
    \A v \in 1..Len(stack) :
        Walked(v) =>
            /\ words[v] = WalkRoot(AsLists(doc[v]).ents, 1, 1)
            /\ \A j \in 1..Len(doc[v].ents) :
                  words[v] = WalkRoot(WithListAt(doc[v], j).ents, 1, 1)

C19_Witness ==
    \E v \in 1..Len(stack) :
        /\ Walked(v)
        /\ \E i \in 1..Len(words[v]) : words[v][i].variant = "qere"
        /\ ~Falsy(Get(doc[v], KeyNote)) /\ Get(doc[v], KeyNote).kind = "map"
        /\ Get(Get(doc[v], KeyNote), KeyRdg).kind = "map"
        /\ Get(doc[v], KeyW).kind = "map"
        /\ words[v] = WalkRoot(AsLists(doc[v]).ents, 1, 1)

\* the words of the verse walked alone, from a fresh counter and flag
Alone(v) == WalkRoot(doc[v].ents, 1, 1)

\* C20: however the steps of two verse walks interleave, each verse gets the
\* words, positions, strongs and variant tags it gets alone; while it runs
\* its words are the first of these and its counter stands behind them, and
\* its positions start at 1 whatever ran before it
C20_InterleavedAsAlone ==
    \A v \in 1..Len(stack) :
        /\ Len(words[v]) <= Len(Alone(v))
        /\ words[v] = SubSeq(Alone(v), 1, Len(words[v]))
        /\ pos[v] = Len(words[v]) + 1
        /\ Walked(v) => words[v] = Alone(v)
        /\ words[v] # <<>> => words[v][1].position = 1

\* the second verse began while the first ran and finished before it, and
\* both carry a qere word
C20_Witness ==
    /\ Len(verses) = 2 /\ verses[1].number = 2 /\ verses[2].number = 1
    /\ \A r \in 1..2 : \E i \in 1..Len(verses[r].words) :
          verses[r].words[i].variant = "qere"
    /\ \E i \in 1..Len(verses[1].words) : verses[1].words[i].strongs.defined

\* the tree without the entries under key k, at every depth
RECURSIVE StripKey(_, _), StripEntries(_, _)
StripEntries(ents, k) ==
    IF ents = <<>> THEN <<>>
    ELSE (IF Head(ents).key = k THEN <<>>
          ELSE <<Entry(Head(ents).key, StripKey(Head(ents).val, k))>>)
         \o StripEntries(Tail(ents), k)

StripKey(n, k) ==
    IF n.kind = "map" THEN MapNode(StripEntries(n.ents, k))
    ELSE IF n.kind = "list" THEN ListNode([i \in 1..Len(n.items) |-> StripKey(n.items[i], k)])
    ELSE n

HasRootKey(verse, k) == \E i \in 1..Len(verse.ents) : verse.ents[i].key = k

\* C21: text under a catchWord key contributes no word wherever the key
\* occurs: a verse's words are those of the verse without its catchWord
\* entries
C21_CatchWordSkipped ==
    \A v \in 1..Len(stack) :
        Walked(v) => words[v] = WalkRoot(StripKey(doc[v], KeyCatchWord).ents, 1, 1)

\* C21 for the verses with no catchWord directly under the verse element
C21_CatchWordSkippedBelowRoot ==
    \A v \in 1..Len(stack) :
        (Walked(v) /\ ~HasRootKey(doc[v], KeyCatchWord)) =>
            words[v] = WalkRoot(StripKey(doc[v], KeyCatchWord).ents, 1, 1)

C21_WitnessBelowRoot ==
    \E v \in 1..Len(stack) :
        /\ Walked(v) /\ ~HasRootKey(doc[v], KeyCatchWord)
        /\ StripKey(doc[v], KeyCatchWord) # doc[v]
        /\ words[v] # <<>>

\* the tree with every note cut down to its rdg children, at every depth:
\* no inline text and no other child is left in a note
RECURSIVE ReduceNotes(_), ReduceEntries(_), ReduceNote(_)
ReduceNote(note) ==
    IF note.kind = "map"
    THEN MapNode(ReduceEntries(SelectSeq(note.ents, LAMBDA e : e.key = KeyRdg)))
    ELSE IF note.kind = "list"
    THEN ListNode([i \in 1..Len(note.items) |-> ReduceNote(note.items[i])])
    ELSE StrNode(<<>>)

ReduceEntries(ents) ==
    [i \in 1..Len(ents) |->
        IF ents[i].key = KeyNote THEN Entry(KeyNote, ReduceNote(ents[i].val))
        ELSE Entry(ents[i].key, ReduceNotes(ents[i].val))]

ReduceNotes(n) ==
    IF n.kind = "map" THEN MapNode(ReduceEntries(n.ents))
    ELSE IF n.kind = "list" THEN ListNode([i \in 1..Len(n.items) |-> ReduceNotes(n.items[i])])
    ELSE n

\* C22: of a note only the x-qere readings can contribute words: a verse's
\* words are those of the verse with every note cut down to its rdg children
C22_NoteBodyDiscarded ==
    \A v \in 1..Len(stack) :
        Walked(v) => words[v] = WalkRoot(ReduceNotes(doc[v]).ents, 1, 1)

\* C22 for the verses with no note directly under the verse element
C22_NoteBodyDiscardedBelowRoot ==
    \A v \in 1..Len(stack) :
        (Walked(v) /\ ~HasRootKey(doc[v], KeyNote)) =>
            words[v] = WalkRoot(ReduceNotes(doc[v]).ents, 1, 1)

C22_WitnessBelowRoot ==
    \E v \in 1..Len(stack) :
        /\ Walked(v) /\ ~HasRootKey(doc[v], KeyNote)
        /\ ReduceNotes(doc[v]) # doc[v]
        /\ \E i \in 1..Len(words[v]) : words[v][i].variant = "qere"

\* the words the post-filter is to remove
ToRemove(w) ==
    /\ w.lemma = <<>> /\ w.morph = <<>>
    /\ \/ \A i \in 1..Len(w.text) : w.text[i] \notin HebrewRange
       \/ w.text \in {TPe, TSamekh}

\* what the post-filter is to leave as it is
Core(w) ==
    [text |-> w.text, lemma |-> w.lemma, morph |-> w.morph, strongs |-> w.strongs,
     variant |-> w.variant]

Cores(ws) == [i \in 1..Len(ws) |-> Core(ws[i])]

Undropped(w) == ~ToRemove(w)

\* C23: the written word list is the raw word list without the words that
\* have no lemma and no morph and either no Hebrew-range character or the
\* text peh or samekh; order, text, lemma, morph, strongs and variant are
\* unchanged, and a word with a lemma or a morph is never dropped
C23_PostFilterExact ==
    \A r \in 1..Len(saved) :
        /\ Cores(saved[r].words) = Cores(SelectSeq(verses[r].words, Undropped))
        /\ Cardinality({i \in 1..Len(verses[r].words) :
                           verses[r].words[i].lemma # <<>> \/ verses[r].words[i].morph # <<>>})
              <= Len(saved[r].words)

C23_Witness ==
    \E r \in 1..Len(saved) :
        /\ Len(saved[r].words) < Len(verses[r].words)
        /\ \E i \in 1..Len(saved[r].words) :
              saved[r].words[i].lemma = <<>> /\ saved[r].words[i].morph = <<>>
        /\ \E i \in 1..Len(saved[r].words) : saved[r].words[i].strongs.defined

\* a raw text made only of slashes and whitespace
Blank(t) == \A i \in 1..Len(t) : t[i] \in WhiteSpace \cup {"/"}

\* C24: every word text is a non-empty token with no slash and no
\* whitespace, from a text leaf and from an element alike, and a raw text
\* made only of slashes and whitespace yields no word
C24_CleanTokens ==
    \A v \in 1..Len(stack) :
        /\ \A i \in 1..Len(words[v]) :
              /\ words[v][i].text # <<>>
              /\ \A k \in 1..Len(words[v][i].text) :
                    words[v][i].text[k] \notin WhiteSpace \cup {"/"}
        /\ \A t \in RawTexts :
              (Walked(v) /\ Blank(t) /\ doc[v] = RawVerse(t)) => words[v] = <<>>

C24_Witness ==
    \E v \in 1..Len(stack) : \E t \in RawTexts :
        /\ Walked(v) /\ doc[v] = RawVerse(t)
        /\ \E i \in 1..Len(t) : t[i] = "/"
        /\ \E i \in 1..Len(t) : t[i] \in WhiteSpace
        /\ Len(words[v]) = 2
        /\ words[v][1].lemma # <<>> /\ words[v][2].lemma = <<>>

C24_WitnessBlank ==
    \E v \in 1..Len(stack) : \E t \in RawTexts :
        /\ Walked(v) /\ doc[v] = RawVerse(t) /\ Blank(t) /\ Len(t) = MaxTextLen
        /\ words[v] = <<>>

\* the words of the two walks agree in number and order, in lemma and morph,
\* and in text once the cantillation marks are removed
SameWords(a, b) ==
    /\ Len(a) = Len(b)
    /\ \A i \in 1..Len(a) :
          i <= Len(b) =>
              /\ removeCantillation(a[i].text) = b[i].text
              /\ a[i].lemma = b[i].lemma
              /\ a[i].morph = b[i].morph

\* the enum tag of w and the flags of u say the same
TagsAgree(w, u) ==
    /\ w.variant = "ketiv" <=> u.metadata = {"isKetiv"}
    /\ w.variant = "qere" <=> u.metadata = {"isQere"}
    /\ w.variant = NoVariant <=> u.metadata = {}

\* C25: the flag tagging of parseVerse and the enum tagging of parseOsis are
\* equivalent: over the same verse the two walks yield the same words in the
\* same order, and for every word variant = ketiv iff only isKetiv is set,
\* variant = qere iff only isQere is set, and no variant iff no flag is set
C25_FlagsEquivalentToEnum ==
    \A r \in 1..Len(uOut) :
        /\ SameWords(words[r], uOut[r].words)
        /\ \A i \in 1..Len(words[r]) :
              i <= Len(uOut[r].words) => TagsAgree(words[r][i], uOut[r].words[i])

\* the two walks list the same words
C25_SameWords == \A r \in 1..Len(uOut) : SameWords(words[r], uOut[r].words)

\* a word typed x-ketiv inside an x-qere reading: the enum says ketiv, the
\* flags say both
C25_KetivInsideQere ==
    \E r \in 1..Len(uOut) : \E i \in 1..Len(uOut[r].words) :
        /\ i <= Len(words[r])
        /\ uOut[r].words[i].metadata = {"isKetiv", "isQere"}
        /\ words[r][i].variant = "ketiv"

\* apart from such words the tags agree
C25_TagsAgreeElsewhere ==
    \A r \in 1..Len(uOut) : \A i \in 1..Len(words[r]) :
        (i <= Len(uOut[r].words) /\ uOut[r].words[i].metadata # {"isKetiv", "isQere"})
            => TagsAgree(words[r][i], uOut[r].words[i])

\* the sum of the value under key k over the words ws
RECURSIVE SumKey(_, _)
SumKey(ws, k) == IF ws = <<>> THEN 0 ELSE Head(ws).gematria[k] + SumKey(Tail(ws), k)

\* the total a record stores under key k, nothing stored counting as 0
TotalOf(rec, k) == IF k \in DOMAIN rec.gematria THEN rec.gematria[k] ELSE 0

MethodKeys == {"standard", "ordinal"}

\* C26: the totals stored with a verse are, for each method key, the sum of
\* that key's value over the filtered, final words: a word the post-filter
\* removes (note prose, a peh or samekh paragraph marker) adds nothing, and
\* every listed word adds its value once
C26_TotalsOverFilteredWords ==
    \A r \in 1..Len(uOut) : \A k \in MethodKeys :
        TotalOf(uOut[r], k) = SumKey(SelectSeq(uOut[r].words, Undropped), k)

\* the totals are the sums over the words the record lists
C26_TotalsOverListedWords ==
    \A r \in 1..Len(uOut) : \A k \in MethodKeys :
        TotalOf(uOut[r], k) = SumKey(uOut[r].words, k)

\* a record lists a paragraph marker and its value is in the totals
C26_MarkerCounted ==
    \E r \in 1..Len(uOut) : \E i \in 1..Len(uOut[r].words) :
        /\ isParagraphMarker(uOut[r].words[i])
        /\ uOut[r].words[i].gematria.standard > 0
        /\ TotalOf(uOut[r], "standard")
              > SumKey(SelectSeq(uOut[r].words, Undropped), "standard")

\* C27: every verse record the importer writes has at least one word and a
\* non-empty text: a verse whose walk yields no word is not written, and
\* neither is a verse all of whose raw words the post-filter removes
C27_WrittenVerseHasWords ==
    \A r \in 1..Len(saved) : Len(saved[r].words) >= 1 /\ saved[r].text # <<>>

\* a verse whose walk yields no word is neither listed nor written
C27_EmptyWalkNotWritten ==
    \A v \in 1..Len(stack) :
        (Walked(v) /\ words[v] = <<>>) =>
            /\ \A r \in 1..Len(verses) : verses[r].number # v
            /\ \A r \in 1..Len(saved) : saved[r].number # v

\* the importer is done and the walk of some verse yielded no word
C27_WitnessEmptyWalk ==
    pc = "done" /\ \E v \in 1..Len(stack) : words[v] = <<>>

\* a record is written although the post-filter removed every raw word
C27_WrittenEmpty ==
    \E r \in 1..Len(saved) :
        /\ saved[r].words = <<>> /\ saved[r].text = <<>>
        /\ verses[r].words # <<>>
        /\ \A i \in 1..Len(verses[r].words) : ToRemove(verses[r].words[i])

\* the word is tagged as a word inside an x-qere reading is to be
QereOrKetiv(w) == w.variant = "qere" \/ w.source.type = TypeKetiv

\* C28: every word emitted while the walk is inside an x-qere reading is
\* tagged variant = qere unless its element is typed x-ketiv, the words of
\* bare text leaves (strings, or lists of strings) inside the reading included
C28_QereReadingTagged ==
    [][\A v \in 1..Len(stack) :
          (Walking(v) /\ InReading(v))
              => \A i \in Added(v) : QereOrKetiv(words'[v][i])]_vars

\* the words of elements inside a reading are tagged
C28_ElementsTagged ==
    [][\A v \in 1..Len(stack) :
          (Walking(v) /\ InReading(v) /\ Top(v).op = "call" /\ Top(v).node.kind = "map")
              => \A i \in Added(v) : QereOrKetiv(words'[v][i])]_vars

\* a word from a text leaf inside an x-qere reading carries no variant
C28_UntaggedLeaf ==
    \E v \in 1..Len(stack) :
        /\ Walked(v)
        /\ Get(doc[v], KeyNote) = Note(TypeVariant, TSpace, <<CatchWord, Entry(KeyRdg, RdgQereLeaves)>>)
        /\ \E i \in 1..Len(words[v]) :
              words[v][i].text = THeb /\ words[v][i].variant = NoVariant

\* C29: extractStrongs is deterministic across calls: with the cursor of the
\* shared regular expression kept between exec calls, the result of a call
\* still depends only on its argument, so after any calls a lemma gets the
\* list a first call on it returns, and the cursor is 0 whenever a call
\* returns and whenever a call begins
C29_DeterministicAcrossCalls ==
    /\ sPc = "done" =>
          /\ lastIndex = 0
          /\ sResults = IF sAbsent THEN <<>> ELSE extractStrongs(sValue, script)
    /\ sPc = "idle" => lastIndex = 0

\* after earlier calls have returned, a call on "3605/3605", during which the
\* cursor stood behind the first match, is over with both codes
C29_Witness ==
    /\ sCalls = MaxCalls
    /\ sPc = "done" /\ script = "import"
    /\ sValue = Str3605x2
    /\ Len(sResults) = 2
    /\ lastIndex = 0

\* the verse a returned record is the record of
VerseNumber(rec) == CHOOSE n \in DOMAIN VerseToken : VerseToken[n] = rec.val

\* the directory holds a file of that name
InDir(name) == \E i \in 1..Len(lDir) : lDir[i].name = name

\* C30: loadChapter returns the verses of the chapter in ascending numeric
\* verse order (verse 2 before verse 10), one record per file whose name ends
\* in .json and none for any other file, whatever verse files the directory
\* holds and in whatever order readdir lists them
C30_ChapterInVerseOrder ==
    (lPc = "returned" /\ lOut.kind = "verses") =>
        LET recs == lOut.verses
        IN /\ Len(recs) = Cardinality({i \in 1..Len(lDir) : EndsWith(lDir[i].name, DotJson)})
           /\ \A i \in 1..Len(recs) :
                 /\ \E n \in DOMAIN VerseToken : VerseToken[n] = recs[i].val
                 /\ InDir(NumberToString(VerseNumber(recs[i])) \o DotJson)
           /\ \A i, j \in 1..Len(recs) :
                 i < j => VerseNumber(recs[i]) < VerseNumber(recs[j])

\* readdir listed 10.json first, then 2.json, and a backup file besides:
\* the three verses are returned as 1, 2, 10
C30_Witness ==
    /\ lPc = "returned" /\ lOut.kind = "verses"
    /\ Len(lDir) = 4 /\ lDir[1].name = Name10 /\ lDir[2].name = Name2
    /\ InDir(NameBak) /\ InDir(Name1)
    /\ Len(lOut.verses) = 3
    /\ VerseNumber(lOut.verses[3]) = 10
====
